---- MODULE Spec2Model ----
(***************************************************************************)
(* A model of simplemodel (src/src/simplemodel.ts): the observable model   *)
(* record (makeModel) and the observable ordered collection                *)
(* (ModelCollection; SimpleCollection is the same code without the         *)
(* per-item subscriptions).                                                *)
(*                                                                         *)
(* Every public operation of the collection is synchronous, so each is one *)
(* action.  The operations are written as operators from a "world" record  *)
(* (the fields of the collection, the private state of every model, and    *)
(* the trace of the call in progress) to the world after the call; the     *)
(* actions apply them to the variables.  Array indices are those of the    *)
(* code (0-based); the sequences of TLA+ are 1-based, so the element the   *)
(* code calls items[i] is items[i + 1] here.                               *)
(***************************************************************************)
EXTENDS Integers, Sequences, FiniteSets, TLC

\* ------------------------------------------------------------------ bounds

\* Number of distinct model objects the callers hold.
NumModels == 4
\* The values a model's sort key (field x) is drawn from are 1..MaxKey.
MaxKey == 3
\* The values of the other field (y) are 0..MaxOther.
MaxOther == 1
\* Callers stop adding when the collection holds MaxLen items.
MaxLen == 4
\* The models 1..NumWatched are the ones SpecChange puts in the collection.
NumWatched == 3
\* Number of distinct handler functions the callers register.
NumHandlers == 2
\* Callers stop adding an item that already has MaxClosures subscriptions.
MaxClosures == 2
\* The longest array the insertion-point search of SpecSearch is run on.
MaxSearch == 6

Models == 1..NumModels
Keys == 1..MaxKey
Others == 0..MaxOther
Handlers == 1..NumHandlers
Watched == 1..NumWatched
Fields == {"x", "y"}
FieldValues(f) == IF f = "x" THEN Keys ELSE Others
\* The comparators callers inject: (a, b) => a.x - b.x and (a, b) => b.x - a.x.
Comparators == {"asc", "desc"}
\* A comparator that orders nothing: (a, b) => (a.x + 2 * b.x) % 3 - 1.
Inconsistent == "mod"
\* this.cmp === undefined
NoCmp == "undefined"
\* The collection classes of the repository: ModelCollection and SimpleCollection
\* (src/src/simplemodel.ts; SimpleCollection is ModelCollection without the
\* subscriptions to its items) and the earlier Collection
\* (src/unnamed/part_000), whose add searches differently and which has no sort.
Kinds == {"ModelCollection", "SimpleCollection", "Collection"}

\* ------------------------------------------------------------------- state

VARIABLES
    kind,               \* the class of the collection (see Kinds)
    items,              \* ModelCollection.items
    cmp,                \* ModelCollection.cmp
    addListeners,       \* ModelCollection.addListeners
    removeListeners,    \* ModelCollection.removeListeners
    resetListeners,     \* ModelCollection.resetListeners
    sortListeners,      \* ModelCollection.sortListeners
    anyListeners,       \* ModelCollection.anyListeners
    changeListeners,    \* ModelCollection.changeListeners
    modelListenerMap,   \* ModelCollection.modelListenerMap: model -> closure id, 0 = no entry
    state,              \* makeModel's `state` of every model: model -> [x, y]
    modelAnyListeners,  \* makeModel's `anyListeners` of every model: model -> Seq(function);
                        \* k > 0 is a closure of track, -h the handler h of a caller
    modelListeners,     \* makeModel's `listeners` of every model: model -> key -> Seq(handler)
    input,              \* the array the caller passed to the constructor
    shared,             \* whether ModelCollection.items and the caller's array are one array
    log,                \* trace of the last call: the effects and listener invocations, in order
    lastOp              \* the last call: its name, arguments and return value (see Op)

vars == <<kind, items, cmp, addListeners, removeListeners, resetListeners, sortListeners,
          anyListeners, changeListeners, modelListenerMap, state, modelAnyListeners,
          modelListeners, input, shared, log, lastOp>>

\* The variables as one record, the argument and result of the operations.
World ==
    [kind |-> kind, items |-> items, cmp |-> cmp, addListeners |-> addListeners,
     removeListeners |-> removeListeners, resetListeners |-> resetListeners,
     sortListeners |-> sortListeners, anyListeners |-> anyListeners,
     changeListeners |-> changeListeners, modelListenerMap |-> modelListenerMap,
     state |-> state, modelAnyListeners |-> modelAnyListeners, modelListeners |-> modelListeners,
     shared |-> shared, log |-> log]

\* ------------------------------------------------------------ array helpers

Range(s) == {s[i] : i \in 1..Len(s)}

\* Array.prototype.indexOf: the first index holding v, -1 when there is none.
indexOf(arr, v) ==
    IF \E i \in 1..Len(arr) : arr[i] = v
    THEN (CHOOSE i \in 1..Len(arr) : arr[i] = v /\ \A j \in 1..(i - 1) : arr[j] # v) - 1
    ELSE -1

\* Array.from keeping the array it was given.
arrayFromAliases(arr) == [items |-> arr, shared |-> TRUE]

\* Array.from(arr): a new array with the elements of arr
arrayFrom(arr) == [items |-> arr, shared |-> FALSE]

\* arr.splice(index, 0, v)
spliceInsert(arr, index, v) ==
    SubSeq(arr, 1, index) \o <<v>> \o SubSeq(arr, index + 1, Len(arr))

\* arr.splice(index, 1)
spliceDelete(arr, index) ==
    SubSeq(arr, 1, index) \o SubSeq(arr, index + 2, Len(arr))

\* arr.filter(f => f !== h)
filterOut(arr, h) == SelectSeq(arr, LAMBDA f : f # h)

\* --------------------------------------------------------------- the trace

\* One entry of the trace of a call.  what = "call": listener h of list `list`
\* was invoked with the arguments given; what = "splice", "push", "track",
\* "cleanUp", ...: the call performed that effect on `item`.
Ev(what, list, h, item, index, field, curr, prev) ==
    [what |-> what, list |-> list, h |-> h, item |-> item, index |-> index,
     field |-> field, curr |-> curr, prev |-> prev]

Effect(what, item, index) == Ev(what, "", 0, item, index, "", 0, 0)

\* listeners.forEach(fn => fn(item, index)) and listeners.forEach(fn => fn())
callAll(list, listeners, item, index) ==
    [k \in 1..Len(listeners) |-> Ev("call", list, listeners[k], item, index, "", 0, 0)]

\* ----------------------------------------------------------- the comparator

\* this.cmp(a, b), for the comparator named c, reading the models' current fields.
cmpCall(c, st, a, b) ==
    CASE c = "asc" -> st[a].x - st[b].x
      [] c = "mod" -> ((st[a].x + 2 * st[b].x) % 3) - 1
      [] OTHER -> st[b].x - st[a].x

\* ------------------------------------------------------ add: binary search

\* The loop `while (hi - low > 1)` of add, from (low, hi, index); `calls` counts
\* the comparator calls made so far.  Yields the final index and the count.
\* The search moving its lower end up by one place instead of to the middle.
RECURSIVE addSearchByOne(_, _, _, _, _, _, _, _)
addSearchByOne(c, st, arr, item, low, hi, index, calls) ==
    IF hi - low > 1
    THEN IF cmpCall(c, st, item, arr[low + 2]) >= 0
         THEN addSearchByOne(c, st, arr, item, low + 1, hi, low + 1, calls + 1)
         ELSE addSearchByOne(c, st, arr, item, low, low + 1, low + 1, calls + 1)
    ELSE [index |-> index, calls |-> calls]

RECURSIVE addSearch(_, _, _, _, _, _, _, _)
addSearch(c, st, arr, item, low, hi, index, calls) ==
    IF hi - low > 1
    THEN LET mid == low + ((hi - low) \div 2)
         IN  IF cmpCall(c, st, item, arr[mid + 1]) >= 0
             THEN addSearch(c, st, arr, item, mid, hi, mid, calls + 1)
             ELSE addSearch(c, st, arr, item, low, mid, mid, calls + 1)
    ELSE [index |-> index, calls |-> calls]

\* The else branch of add up to the splice: the insertion index (and the number
\* of comparator calls) for `item` in the non-empty array arr.
addInsertion(c, st, arr, item) ==
    LET found == addSearch(c, st, arr, item, 0, Len(arr), 0, 0)
    IN  [index |-> IF cmpCall(c, st, item, arr[found.index + 1]) >= 0
                   THEN found.index + 1
                   ELSE found.index,
         calls |-> found.calls + 1]

\* The loop `while (l <= r)` of Collection.add (src/unnamed/part_000), from
\* (l, r, m): yields the last m probed.
RECURSIVE collectionAddSearch(_, _, _, _, _, _, _)
collectionAddSearch(c, st, arr, item, l, r, m) ==
    IF l <= r
    THEN LET mid == ((r - l) \div 2) + l
             comparison == cmpCall(c, st, arr[mid + 1], item)
         IN  IF comparison < 0
             THEN collectionAddSearch(c, st, arr, item, mid + 1, r, mid)
             ELSE IF comparison > 0
                  THEN collectionAddSearch(c, st, arr, item, l, mid - 1, mid)
                  ELSE mid
    ELSE m

\* The else branch of Collection.add up to the splice: the insertion index.
collectionAddInsertion(c, st, arr, item) ==
    LET m == collectionAddSearch(c, st, arr, item, 0, Len(arr) - 1, 0)
    IN  IF cmpCall(c, st, item, arr[m + 1]) < 0 THEN m ELSE m + 1

\* -------------------------------------------------------------- merge sort

\* mergeLoop taking from the right partition on a tie (`< 0` for `<= 0`).
RECURSIVE mergeLoopRightOnTie(_, _, _, _, _, _, _, _, _)
mergeLoopRightOnTie(c, st, src, dst, i, j, k, mid, hi) ==
    IF k < hi
    THEN IF i < mid /\ (j >= hi \/ cmpCall(c, st, src[i + 1], src[j + 1]) < 0)
         THEN mergeLoopRightOnTie(c, st, src, [dst EXCEPT ![k + 1] = src[i + 1]],
                                  i + 1, j, k + 1, mid, hi)
         ELSE mergeLoopRightOnTie(c, st, src, [dst EXCEPT ![k + 1] = src[j + 1]],
                                  i, j + 1, k + 1, mid, hi)
    ELSE dst

\* The for loop of _mergesortRecurse: merges src[i..mid) and src[j..hi) into
\* dst[k..hi).  Yields dst.
RECURSIVE mergeLoop(_, _, _, _, _, _, _, _, _)
mergeLoop(c, st, src, dst, i, j, k, mid, hi) ==
    IF k < hi
    THEN IF i < mid /\ (j >= hi \/ cmpCall(c, st, src[i + 1], src[j + 1]) <= 0)
         THEN mergeLoop(c, st, src, [dst EXCEPT ![k + 1] = src[i + 1]], i + 1, j, k + 1, mid, hi)
         ELSE mergeLoop(c, st, src, [dst EXCEPT ![k + 1] = src[j + 1]], i, j + 1, k + 1, mid, hi)
    ELSE dst

\* _mergesortRecurse(low, src, dst, hi).  Both arrays are written (the recursive
\* calls swap their roles), so the result is the pair of arrays after the call.
RECURSIVE mergesortRecurse(_, _, _, _, _, _)
mergesortRecurse(c, st, low, src, dst, hi) ==
    IF hi - low < 2
    THEN [src |-> src, dst |-> dst]
    ELSE LET mid == low + ((hi - low) \div 2)
             left == mergesortRecurse(c, st, low, dst, src, mid)
             right == mergesortRecurse(c, st, mid, left.src, left.dst, hi)
         IN  [src |-> right.dst,
              dst |-> mergeLoop(c, st, right.dst, right.src, low, mid, low, mid, hi)]

\* _mergesort(): dest = this.items, src = Array.from(dest); yields this.items.
mergesort(c, st, arr) == mergesortRecurse(c, st, 0, arr, arr, Len(arr)).dst

\* ----------------------------------------------- Array.prototype.sort(cmp)

isSorted(c, st, arr) ==
    \A i \in 1..(Len(arr) - 1) : cmpCall(c, st, arr[i], arr[i + 1]) <= 0

isPermutation(a, b) ==
    /\ Len(a) = Len(b)
    /\ \A v \in Range(a) \cup Range(b) :
           Cardinality({i \in 1..Len(a) : a[i] = v}) = Cardinality({i \in 1..Len(b) : b[i] = v})

\* The arrays the native arr.sort(cmp) of the constructor and of reset may leave:
\* any sorted permutation of arr (the native sort need not be stable, which is
\* why the collection has its own merge sort).
nativeSortResults(c, st, arr) ==
    {p \in [1..Len(arr) -> Range(arr)] : isPermutation(p, arr) /\ isSorted(c, st, p)}

\* ------------------------------------------------- the model (makeModel)

\* A closure id that neither the model's anyListeners nor the collection's map
\* holds for `item`: the identity of the function a new onAny call registers.
freshClosure(w, item) ==
    CHOOSE k \in 1..(Len(w.modelAnyListeners[item]) + 2) :
        /\ k \notin Range(w.modelAnyListeners[item])
        /\ k # w.modelListenerMap[item]
        /\ \A j \in 1..(k - 1) :
               j \in Range(w.modelAnyListeners[item]) \/ j = w.modelListenerMap[item]

\* The handler of track() putting the items back in order after a change.
trackHandlerResorts(w, item, field, curr, prev) ==
    [w EXCEPT !.items = IF w.cmp = NoCmp THEN @ ELSE mergesort(w.cmp, w.state, @),
              !.log = @ \o
                  [k \in 1..Len(w.changeListeners) |->
                      Ev("call", "change", w.changeListeners[k], item,
                         indexOf(w.items, item), field, curr, prev)]]

\* The handler of track() notifying the any-change listeners as well.
trackHandlerNotifiesAny(w, item, field, curr, prev) ==
    [w EXCEPT !.log = @ \o
        [k \in 1..Len(w.changeListeners) |->
            Ev("call", "change", w.changeListeners[k], item, indexOf(w.items, item),
               field, curr, prev)]
        \o [k \in 1..Len(w.anyListeners) |->
               Ev("call", "any", w.anyListeners[k], 0, 0, "", 0, 0)]]

\* The handler of track() reporting the index of an appended item.
trackHandlerAppendedIndex(w, item, field, curr, prev) ==
    [w EXCEPT !.log = @ \o
        [k \in 1..Len(w.changeListeners) |->
            Ev("call", "change", w.changeListeners[k], item, Len(w.items) - 1,
               field, curr, prev)]]

\* The handler track() registers on a model, called with (field, curr, prev):
\* index = this.indexOf(item); changeListeners.forEach(fn => fn(item, index, ...)).
trackHandler(w, item, field, curr, prev) ==
    LET index == indexOf(w.items, item)
    IN  [w EXCEPT !.log = @ \o
            [k \in 1..Len(w.changeListeners) |->
                Ev("call", "change", w.changeListeners[k], item, index, field, curr, prev)]]

\* anyListeners.forEach(fn => fn(key, newVal, oldVal)) of a model, over the
\* array `fns` as it was when forEach started.
RECURSIVE modelNotifyAny(_, _, _, _, _, _)
modelNotifyAny(w, fns, item, field, curr, prev) ==
    IF fns = <<>>
    THEN w
    ELSE modelNotifyAny(
             IF Head(fns) > 0
             THEN trackHandler(w, item, field, curr, prev)
             ELSE [w EXCEPT !.log = @ \o
                      <<Ev("call", "onAny", 0 - Head(fns), item, 0, field, curr, prev)>>],
             Tail(fns), item, field, curr, prev)

\* handlers.forEach(fn => fn(newVal, oldVal)) over the listeners of one key;
\* a key nobody registered for has no array.
modelNotifyKey(w, item, field, curr, prev) ==
    [w EXCEPT !.log = @ \o
        [k \in 1..Len(w.modelListeners[item][field]) |->
            Ev("call", "on", w.modelListeners[item][field][k], item, 0, field, curr, prev)]]

\* The setter calling the onAny listeners before the listeners of the key.
modelSetAnyFirst(w, item, field, newVal) ==
    LET oldVal == w.state[item][field]
        w1 == [w EXCEPT !.state[item][field] = newVal,
                        !.log = @ \o <<Ev("write", "", 0, item, 0, field, newVal, oldVal)>>]
        w2 == modelNotifyAny(w1, w1.modelAnyListeners[item], item, field, newVal, oldVal)
    IN  modelNotifyKey(w2, item, field, newVal, oldVal)

\* The property setter of a model: model[field] = newVal.
modelSet(w, item, field, newVal) ==
    LET oldVal == w.state[item][field]
        w1 == [w EXCEPT !.state[item][field] = newVal,
                        !.log = @ \o <<Ev("write", "", 0, item, 0, field, newVal, oldVal)>>]
        w2 == modelNotifyKey(w1, item, field, newVal, oldVal)
    IN  modelNotifyAny(w2, w2.modelAnyListeners[item], item, field, newVal, oldVal)

\* model.on(key, fn): push fn on the array of the key, made when missing
modelOn(w, item, key, fn) == [w EXCEPT !.modelListeners[item][key] = Append(@, fn)]

\* model.onAny(fn): anyListeners.push(fn)
modelOnAny(w, item, fn) == [w EXCEPT !.modelAnyListeners[item] = Append(@, 0 - fn)]

\* The closure of model.on removing the first listener of the key.
modelOffRemovesFirst(w, item, key, fn) ==
    [w EXCEPT !.modelListeners[item][key] = IF @ = <<>> THEN <<>> ELSE Tail(@)]

\* The closure model.on(key, fn) returned:
\* arr = listeners[key]; if (arr) listeners[key] = arr.filter(f => f !== fn)
modelOff(w, item, key, fn) == [w EXCEPT !.modelListeners[item][key] = filterOut(@, fn)]

\* The closure model.onAny(fn) returned:
\* anyListeners = anyListeners.filter(f => f !== fn)
modelOffAny(w, item, fn) == [w EXCEPT !.modelAnyListeners[item] = filterOut(@, 0 - fn)]

\* model.offAll(): listeners = {}; anyListeners = []
modelOffAll(w, item) ==
    [w EXCEPT !.modelListeners[item] = [f \in Fields |-> <<>>],
              !.modelAnyListeners[item] = <<>>]

\* Object.assign(state, subset): the keys of subset are written in order.
RECURSIVE assign(_, _, _)
assign(w, item, subset) ==
    IF subset = <<>> THEN w
    ELSE assign([w EXCEPT !.state[item][subset[1][1]] = subset[1][2],
                          !.log = @ \o <<Ev("write", "", 0, item, 0, subset[1][1],
                                            subset[1][2], w.state[item][subset[1][1]])>>],
                item, Tail(subset))

\* for (let k in subset) { listeners[k].forEach(fn(state[k], prev[k]));
\*                         anyListeners.forEach(fn(k, state[k], prev[k])) }
RECURSIVE updateNotify(_, _, _, _)
updateNotify(w, item, ks, prev) ==
    IF ks = <<>> THEN w
    ELSE LET k == ks[1][1]
             w1 == modelNotifyKey(w, item, k, w.state[item][k], prev[k])
             w2 == modelNotifyAny(w1, w1.modelAnyListeners[item], item, k,
                                  w1.state[item][k], prev[k])
         IN  updateNotify(w2, item, Tail(ks), prev)

\* update as one assignment per key, each notifying before the next is made.
RECURSIVE updateKeyByKey(_, _, _)
updateKeyByKey(w, item, subset) ==
    IF subset = <<>> THEN w
    ELSE updateKeyByKey(modelSet(w, item, subset[1][1], subset[1][2]), item, Tail(subset))

\* model.update(subset); subset is the sequence of its <<key, value>> pairs.
update(w, item, subset) ==
    LET prev == w.state[item]
    IN  updateNotify(assign(w, item, subset), item, subset, prev)

\* ------------------------------------------------- track and cleanUp

\* track(item): const off = item.onAny(...); this.modelListenerMap.set(item, off).
\* Only ModelCollection has it.
track(w, item) ==
    LET id == freshClosure(w, item)
    IN  IF w.kind # "ModelCollection" THEN w ELSE
        [w EXCEPT !.modelAnyListeners[item] = Append(@, id),
                  !.modelListenerMap[item] = id,
                  !.log = Append(@, Effect("track", item, 0))]

\* cleanUp forgetting the closure without calling it.
cleanUpKeepsListener(w, item) ==
    [w EXCEPT !.modelListenerMap[item] = 0]

\* cleanUp(item): off = map.get(item); if (off) { off(); map.delete(item); }
cleanUp(w, item) ==
    LET off == w.modelListenerMap[item]
    IN  IF w.kind = "ModelCollection" /\ off # 0
        THEN [w EXCEPT !.modelAnyListeners[item] = filterOut(@, off),
                       !.modelListenerMap[item] = 0,
                       !.log = Append(@, Effect("cleanUp", item, 0))]
        ELSE w

\* arr.forEach(item => this.track(item))
RECURSIVE trackAll(_, _)
trackAll(w, arr) ==
    IF arr = <<>> THEN w ELSE trackAll(track(w, Head(arr)), Tail(arr))

\* arr.forEach(item => this.cleanUp(item))
RECURSIVE cleanUpAll(_, _)
cleanUpAll(w, arr) ==
    IF arr = <<>> THEN w ELSE cleanUpAll(cleanUp(w, Head(arr)), Tail(arr))

\* ------------------------------------------- the collection's operations

\* this.addListeners.forEach(fn => fn(item, index)) and the like: every
\* listener of the list is invoked, in the list's order.
RECURSIVE remove(_, _), removeAt(_, _), add(_, _), on(_, _, _), off(_, _, _)

\* The handler that calls back into the collection: registered for add or
\* remove it is (item) => collection.remove(item), registered for reset it
\* is () => collection.removeAt(0).  The other handlers only take note.
Reentrant == NumHandlers + 1

\* The handler that writes to the item it is told of: registered for add or
\* remove it is (item) => { item.y = 1 }.
Writer == NumHandlers + 2

\* The handler that puts back what is removed: registered for remove it is
\* (item) => collection.add(item).
Readder == NumHandlers + 3

\* The handlers that change the list they are on: registered for add,
\* Unsubscriber is () => off1(), off1 being the closure on('add', handler 1)
\* returned, and Registrar is () => { collection.on('add', handler 2) }.
Unsubscriber == NumHandlers + 4
Registrar == NumHandlers + 5

\* The handler that fails: () => { throw new Error() }.
Thrower == NumHandlers + 6

\* An exception is on its way out of the call: the trace ends with a throw.
thrown(w) == w.log # <<>> /\ w.log[Len(w.log)].what = "throw"

\* forEach over these listeners ends in an exception.
throws(listeners) == Thrower \in Range(listeners)

\* fn(item, index) for the function h of the list; what a nested call
\* returned is noted in the trace when it is back.
react(w, list, h, item, index) ==
    LET w0 == [w EXCEPT !.log = Append(@, Ev("call", list, h, item, index, "", 0, 0))]
    IN  IF h = Writer /\ list \in {"add", "remove"}
        THEN modelSet(w0, item, "y", 1)
        ELSE IF h = Thrower
        THEN [w0 EXCEPT !.log = Append(@, Effect("throw", item, index))]
        ELSE IF h = Unsubscriber /\ list = "add"
        THEN off([w0 EXCEPT !.log = Append(@, Ev("off", list, 1, item, index, "", 0, 0))],
                 list, 1)
        ELSE IF h = Registrar /\ list = "add"
        THEN on([w0 EXCEPT !.log = Append(@, Ev("on", list, 2, item, index, "", 0, 0))],
                list, 2)
        ELSE IF h = Readder /\ list = "remove"
        THEN add(w0, item)
        ELSE IF h # Reentrant \/ list \notin {"add", "remove", "reset"}
        THEN w0
        ELSE LET r == IF list = "reset" THEN removeAt(w0, 0) ELSE remove(w0, item)
             IN  [r.w EXCEPT !.log = Append(@, Ev("returned", list, h, item, index, "",
                                                  IF r.ret THEN 1 ELSE 0, 0))]

\* listeners.forEach(fn => fn(item, index)), over the array as it was when
\* forEach started, each function running to its end before the next; an
\* exception ends it
RECURSIVE dispatch(_, _, _, _, _)
dispatch(w, list, listeners, item, index) ==
    IF listeners = <<>>
    THEN w
    ELSE dispatch(react(w, list, Head(listeners), item, index), list,
                  IF Head(listeners) = Thrower THEN <<>> ELSE Tail(listeners),
                  item, index)

\* The index add(item) inserts at, and the effect that puts it there.
addPlace(w, item) ==
    IF w.cmp = NoCmp \/ Len(w.items) = 0
    THEN [index |-> Len(w.items), how |-> "push"]
    ELSE [index |-> IF w.kind = "Collection"
                    THEN collectionAddInsertion(w.cmp, w.state, w.items, item)
                    ELSE addInsertion(w.cmp, w.state, w.items, item).index,
          how |-> "splice"]

\* add notifying the add listeners before it has put the item in place.
addNotifiesBeforeInsert(w, item) ==
    LET place == addPlace(w, item)
        w1 == dispatch(w, "add", w.addListeners, item, place.index)
        w2 == [w1 EXCEPT !.items = spliceInsert(@, place.index, item),
                         !.log = Append(@, Effect(place.how, item, place.index))]
        w3 == track(w2, item)
    IN  dispatch(w3, "any", w3.anyListeners, 0, 0)

\* add notifying before it has subscribed to the item.
addNotifiesBeforeTrack(w, item) ==
    LET place == addPlace(w, item)
        w1 == [w EXCEPT !.items = spliceInsert(@, place.index, item),
                        !.log = Append(@, Effect(place.how, item, place.index))]
        w2 == dispatch(w1, "add", w1.addListeners, item, place.index)
        w3 == dispatch(w2, "any", w2.anyListeners, 0, 0)
    IN  track(w3, item)

\* add(item)
add(w, item) ==
    LET place == addPlace(w, item)
        w1 == [w EXCEPT !.items = spliceInsert(@, place.index, item),
                        !.log = Append(@, Effect(place.how, item, place.index))]
        w2 == track(w1, item)
        w3 == dispatch(w2, "add", w2.addListeners, item, place.index)
    IN  dispatch(w3, "any", w3.anyListeners, 0, 0)

\* push(item) and unshift(item): add when there is a comparator, else
\* this.items.push(item), this.items.unshift(item)
push(w, item) ==
    IF w.cmp # NoCmp
    THEN add(w, item)
    ELSE [w EXCEPT !.items = Append(@, item),
                   !.log = Append(@, Effect("push", item, Len(w.items)))]

unshift(w, item) ==
    IF w.cmp # NoCmp
    THEN add(w, item)
    ELSE [w EXCEPT !.items = <<item>> \o @,
                   !.log = Append(@, Effect("unshift", item, 0))]

\* pop() and shift(): return this.items.pop(), return this.items.shift()
pop(w) ==
    IF w.items = <<>> THEN w
    ELSE [w EXCEPT !.items = SubSeq(@, 1, Len(@) - 1),
                   !.log = Append(@, Effect("pop", w.items[Len(w.items)], Len(w.items) - 1))]

shift(w) ==
    IF w.items = <<>> THEN w
    ELSE [w EXCEPT !.items = Tail(@),
                   !.log = Append(@, Effect("shift", w.items[1], 0))]

\* remove and removeAt without the any-change notification.
removeFoundWithoutAny(w, item, index) ==
    LET w1 == [w EXCEPT !.items = spliceDelete(@, index),
                        !.log = Append(@, Effect("splice", item, index))]
        w2 == dispatch(w1, "remove", w1.removeListeners, item, index)
    IN  cleanUp(w2, item)

\* remove and removeAt notifying the any-change listeners first.
removeFoundAnyFirst(w, item, index) ==
    LET w1 == [w EXCEPT !.items = spliceDelete(@, index),
                        !.log = Append(@, Effect("splice", item, index))]
        w2 == dispatch(w1, "any", w1.anyListeners, 0, 0)
        w3 == dispatch(w2, "remove", w2.removeListeners, item, index)
    IN  cleanUp(w3, item)

\* The body of remove and removeAt once the item and its index are known.
removeFound(w, item, index) ==
    LET w1 == [w EXCEPT !.items = spliceDelete(@, index),
                        !.log = Append(@, Effect("splice", item, index))]
        w2 == dispatch(w1, "remove", w1.removeListeners, item, index)
        w3 == dispatch(w2, "any", w2.anyListeners, 0, 0)
    IN  IF throws(w.removeListeners) THEN w2
        ELSE IF throws(w.anyListeners) THEN w3
        ELSE cleanUp(w3, item)

\* remove telling the remove listeners of an item it did not find.
removeNotifiesWhenAbsent(w, item) ==
    LET index == indexOf(w.items, item)
    IN  IF index = -1
        THEN [w |-> dispatch(w, "remove", w.removeListeners, item, index), ret |-> FALSE]
        ELSE [w |-> removeFound(w, item, index), ret |-> TRUE]

\* remove(item): the world after the call and the value returned.
remove(w, item) ==
    LET index == indexOf(w.items, item)
    IN  IF index = -1
        THEN [w |-> w, ret |-> FALSE]
        ELSE [w |-> removeFound(w, item, index), ret |-> TRUE]

\* removeAt counting a negative index from the end, as splice does.
removeAtFromEnd(w, index) ==
    LET at == IF index < 0 THEN Len(w.items) + index ELSE index
    IN  IF at >= 0 /\ at < Len(w.items)
        THEN [w |-> removeFound(w, w.items[at + 1], at), ret |-> TRUE]
        ELSE [w |-> w, ret |-> FALSE]

\* removeAt(index)
removeAt(w, index) ==
    IF index >= 0 /\ index < Len(w.items)
    THEN [w |-> removeFound(w, w.items[index + 1], index), ret |-> TRUE]
    ELSE [w |-> w, ret |-> FALSE]

\* reset announcing the first of the new items to the add listeners as well.
resetNotifiesAdd(w, sorted) ==
    LET w1 == cleanUpAll(w, w.items)
        w2 == [w1 EXCEPT !.items = sorted,
                         !.log = Append(@, Effect("assign", 0, 0))]
        w3 == trackAll(w2, w2.items)
        w4 == IF sorted = <<>> THEN w3
              ELSE dispatch(w3, "add", w3.addListeners, sorted[1], 0)
        w5 == dispatch(w4, "reset", w4.resetListeners, 0, 0)
    IN  dispatch(w5, "any", w5.anyListeners, 0, 0)

\* reset leaving the subscriptions to the previous items in place.
resetKeepsSubscriptions(w, sorted) ==
    LET w2 == [w EXCEPT !.items = sorted,
                        !.log = Append(@, Effect("assign", 0, 0))]
        w3 == trackAll(w2, w2.items)
        w4 == dispatch(w3, "reset", w3.resetListeners, 0, 0)
    IN  dispatch(w4, "any", w4.anyListeners, 0, 0)

\* reset(newItems); `sorted` is what the native sort leaves of the copy of
\* newItems (the copy itself when no comparator is set).
reset(w, sorted) ==
    LET w1 == cleanUpAll(w, w.items)
        w2 == [w1 EXCEPT !.items = arrayFrom(sorted).items,
                         !.shared = arrayFrom(sorted).shared,
                         !.log = Append(@, Effect("assign", 0, 0))]
        w3 == trackAll(w2, w2.items)
        w4 == dispatch(w3, "reset", w3.resetListeners, 0, 0)
    IN  dispatch(w4, "any", w4.anyListeners, 0, 0)

\* sort staying silent when the items are in order already.
sortSilentWhenSorted(w, hasArg, c) ==
    LET w1 == IF hasArg THEN [w EXCEPT !.cmp = c] ELSE w
    IN  IF w1.cmp # NoCmp /\ ~isSorted(w1.cmp, w1.state, w1.items)
        THEN LET w2 == [w1 EXCEPT !.items = mergesort(w1.cmp, w1.state, @),
                                  !.log = Append(@, Effect("mergesort", 0, 0))]
             IN  dispatch(w2, "sort", w2.sortListeners, 0, 0)
        ELSE w1

\* sort taking an undefined argument for no argument.
sortIgnoresUndefined(w, hasArg, c) ==
    LET w1 == IF hasArg /\ c # NoCmp THEN [w EXCEPT !.cmp = c] ELSE w
    IN  IF w1.cmp # NoCmp
        THEN LET w2 == [w1 EXCEPT !.items = mergesort(w1.cmp, w1.state, @),
                                  !.log = Append(@, Effect("mergesort", 0, 0))]
             IN  dispatch(w2, "sort", w2.sortListeners, 0, 0)
        ELSE w1

\* sort(cmp?): hasArg is arguments.length > 0, c the argument.
sort(w, hasArg, c) ==
    LET w1 == IF hasArg THEN [w EXCEPT !.cmp = c] ELSE w
    IN  IF w1.cmp # NoCmp
        THEN LET w2 == [w1 EXCEPT !.items = mergesort(w1.cmp, w1.state, @),
                                  !.log = Append(@, Effect("mergesort", 0, 0))]
             IN  dispatch(w2, "sort", w2.sortListeners, 0, 0)
        ELSE w1

\* this.<list>Listeners of on(name, ...); onAny uses "any".
listenersOf(w, name) ==
    CASE name = "add" -> w.addListeners
      [] name = "remove" -> w.removeListeners
      [] name = "reset" -> w.resetListeners
      [] name = "sort" -> w.sortListeners
      [] name = "change" -> w.changeListeners
      [] name = "any" -> w.anyListeners

withListeners(w, name, l) ==
    CASE name = "add" -> [w EXCEPT !.addListeners = l]
      [] name = "remove" -> [w EXCEPT !.removeListeners = l]
      [] name = "reset" -> [w EXCEPT !.resetListeners = l]
      [] name = "sort" -> [w EXCEPT !.sortListeners = l]
      [] name = "change" -> [w EXCEPT !.changeListeners = l]
      [] name = "any" -> [w EXCEPT !.anyListeners = l]

\* on(name, handler) and onAny(handler): this.<name>Listeners.push(handler)
on(w, name, h) == withListeners(w, name, Append(listenersOf(w, name), h))

\* off removing the first handler of the list instead of its own.
offRemovesFirst(w, name, h) ==
    withListeners(w, name,
                  IF listenersOf(w, name) = <<>> THEN <<>> ELSE Tail(listenersOf(w, name)))

\* The closure on(name, handler) returned:
\* this.<name>Listeners = this.<name>Listeners.filter(f => f !== handler)
off(w, name, h) == withListeners(w, name, filterOut(listenersOf(w, name), h))

\* The methods of Array that the collections refuse.
unsupportedNames == {"reverse", "splice", "fill", "copyWithin", "keys", "values"}

\* The items of arr, last first.
reversed(arr) == [i \in 1..Len(arr) |-> arr[Len(arr) + 1 - i]]

\* Visitor functions a caller passes to forEach, as (item, index, arr) => ...:
\*   "look"     reads the item
\*   "pop"      arr.pop()
\*   "reverse"  if (index === 0) arr.reverse()
Callbacks == {"look", "pop", "reverse"}

\* The array arr after the visitor fn ran with it as third argument.
callback(fn, arr, index) ==
    CASE fn = "pop" -> SubSeq(arr, 1, Len(arr) - 1)
      [] fn = "reverse" /\ index = 0 -> reversed(arr)
      [] OTHER -> arr

\* Array.prototype.forEach on this.items from index k: the length is read
\* once, an index no longer present is skipped, and the visitor is called
\* with (this.items[k], k, this.items).
RECURSIVE forEachFrom(_, _, _, _)
forEachFrom(w, fn, k, len) ==
    IF k >= len THEN w
    ELSE IF k >= Len(w.items) THEN forEachFrom(w, fn, k + 1, len)
    ELSE forEachFrom([w EXCEPT !.items = callback(fn, @, k),
                               !.log = @ \o <<Effect("visit", w.items[k + 1], k)>>],
                     fn, k + 1, len)

\* forEach(fn): this.items.forEach(fn)
forEach(w, fn) == forEachFrom(w, fn, 0, Len(w.items))

\* reverse() reversing the items in place and returning, as Array's does.
unsupportedReverses(w, name) ==
    IF name = "reverse"
    THEN [w EXCEPT !.items = reversed(@)]
    ELSE [w EXCEPT !.log = @ \o <<Effect("throw", 0, 0)>>]

\* reverse(), splice(), fill(), copyWithin(), keys(), values():
\* throw new Error(...), the only statement of each
unsupported(w, name) == [w EXCEPT !.log = @ \o <<Effect("throw", 0, 0)>>]

\* offAll leaving the change listeners in place.
offAllKeepsChange(w) ==
    [w EXCEPT !.addListeners = <<>>, !.removeListeners = <<>>, !.resetListeners = <<>>,
              !.sortListeners = <<>>, !.anyListeners = <<>>]

\* offAll(): every list is replaced by an empty one (a SimpleCollection has no
\* change listeners).
offAll(w) ==
    [w EXCEPT !.addListeners = <<>>, !.removeListeners = <<>>, !.resetListeners = <<>>,
              !.sortListeners = <<>>, !.anyListeners = <<>>,
              !.changeListeners = IF w.kind = "ModelCollection" THEN <<>> ELSE @]

\* ------------------------------------------------------------ construction

\* new ModelCollection(items, cmp) over models whose private state is st;
\* `sorted` is what the native sort leaves of Array.from(items).
construct(k, st, c, sorted) ==
    trackAll([kind |-> k, items |-> arrayFrom(sorted).items,
              shared |-> arrayFrom(sorted).shared, cmp |-> c, addListeners |-> <<>>,
              removeListeners |-> <<>>, resetListeners |-> <<>>, sortListeners |-> <<>>,
              anyListeners |-> <<>>, changeListeners |-> <<>>,
              modelListenerMap |-> [m \in Models |-> 0],
              state |-> st, modelAnyListeners |-> [m \in Models |-> <<>>],
              modelListeners |-> [m \in Models |-> [f \in Fields |-> <<>>]],
              log |-> <<>>],
             sorted)

\* What the copy of arr holds after `if (cmp) this.items.sort(this.cmp)`.
sortedCopies(c, st, arr) ==
    IF c = NoCmp THEN {arr} ELSE nativeSortResults(c, st, arr)

\* ----------------------------------------------------------------- actions

\* The record kept of a call.
\*   op     the method: "new", "add", "remove", "removeAt", "reset", "sort",
\*          "set" (a field write), "on", "off" (a call of an unsubscribe
\*          closure), "offAll"
\*   name   sort: the comparator passed ("" for none); set: the field;
\*          on, off: the event name ("any" for onAny)
\*   arg    add, remove, set: the model; removeAt: the index; on, off: the handler
\*   arr    update: the subset passed; modelOn, modelOnAny: the list before the call;
\*          reset, new: the array passed; on, off: the listener list before the
\*          call; offAll: the six lists before the call, one after the other;
\*          set: the items before the preceding call, when that was a sort, the
\*          arr of the preceding call, when that was an offAll
\*   ret    the value returned (TRUE for the methods that return nothing)
\*   pre    sort, forEach: the items before the call; caller: the caller's
\*          array before the change; update: the fields of the model before the call
\*   after  set: the op of the preceding call, when that was a sort, a reset or
\*          an offAll;
\*          off: "again" when the closure called was dead (see held)
\*   gone   modelOff, modelOffAny: the <<key, handler>> of the closure called;
\*          reset: the models that were items before the call and are not
\*          among the new items; set: those of the preceding call, a reset
\*   held   the unsubscribe closures the callers have kept (only the actions
\*          OnHeld, CallOff and OffAll keep any): [name, h, dead], dead when the
\*          closure has been called or offAll was called since on returned it
Op(op, name, arg, arr, ret, pre, after, gone) ==
    [op |-> op, name |-> name, arg |-> arg, arr |-> arr, ret |-> ret, pre |-> pre,
     after |-> after, gone |-> gone, held |-> {}]

\* The variables take the values of world w, the caller's array is arr and
\* the call recorded is o.
Settle(w, o, arr) ==
    /\ kind' = w.kind
    /\ items' = w.items
    /\ cmp' = w.cmp
    /\ addListeners' = w.addListeners
    /\ removeListeners' = w.removeListeners
    /\ resetListeners' = w.resetListeners
    /\ sortListeners' = w.sortListeners
    /\ anyListeners' = w.anyListeners
    /\ changeListeners' = w.changeListeners
    /\ modelListenerMap' = w.modelListenerMap
    /\ state' = w.state
    /\ modelAnyListeners' = w.modelAnyListeners
    /\ modelListeners' = w.modelListeners
    /\ log' = w.log
    /\ lastOp' = o
    /\ shared' = w.shared
    /\ input' = arr

\* A call of a method of the collection that leaves it as world w.  The
\* caller's array shows what the call did to the items when the two are one
\* array.
Commit(w, o) == Settle(w, o, IF w.shared THEN w.items ELSE input)

\* The world a call starts from: its trace is empty.
Start == [World EXCEPT !.log = <<>>]

\* Sequences over S without repetition, of length at most n.
distinctSeqs(S, n) ==
    UNION {{q \in [1..k -> S] : \A i, j \in 1..k : i # j => q[i] # q[j]} : k \in 0..n}

\* The state after `new <k>(arr, c)`, `shown` being the array the caller keeps
\* in view (arr itself, or the elements it will add one by one).
InitWith(k, st, c, arr, sorted, shown) ==
    LET w == construct(k, st, c, sorted)
    IN  /\ kind = w.kind
        /\ items = w.items
        /\ cmp = w.cmp
        /\ addListeners = w.addListeners
        /\ removeListeners = w.removeListeners
        /\ resetListeners = w.resetListeners
        /\ sortListeners = w.sortListeners
        /\ anyListeners = w.anyListeners
        /\ changeListeners = w.changeListeners
        /\ modelListenerMap = w.modelListenerMap
        /\ state = w.state
        /\ modelAnyListeners = w.modelAnyListeners
        /\ modelListeners = w.modelListeners
        /\ log = w.log
        /\ lastOp = Op("new", c, 0, arr, TRUE, <<>>, "", {})
        /\ input = shown
        /\ shared = w.shared

\* The models as the tests make them: model m has x = m (capped) and y = 0.
plainState == [m \in Models |-> [x |-> IF m <= MaxKey THEN m ELSE MaxKey, y |-> 0]]

\* Every model has the smallest key.
lowState == [m \in Models |-> [x |-> 1, y |-> 0]]

\* Key assignments with and without ties, up to renaming the models and the
\* keys: x starts at 1 and grows by 0 or 1 from one model to the next.
orderedStates ==
    {st \in [Models -> [x : Keys, y : {0}]] :
        /\ st[1].x = 1
        /\ \A m \in Models : m + 1 \in Models =>
               st[m + 1].x - st[m].x \in {0, 1}}

Add(item) ==
    /\ Len(items) < MaxLen
    /\ Commit(add(Start, item), Op("add", "", item, <<>>, TRUE, <<>>, "", {}))

Remove(item) ==
    LET r == remove(Start, item)
    IN  Commit(r.w, Op("remove", "", item, <<>>, r.ret, <<>>, "", {}))

RemoveAt(index) ==
    LET r == removeAt(Start, index)
    IN  Commit(r.w, Op("removeAt", "", index, <<>>, r.ret, <<>>, "", {}))

Reset(newItems) ==
    \E sorted \in sortedCopies(cmp, state, newItems) :
        Commit(reset(Start, sorted), Op("reset", "", 0, newItems, TRUE, <<>>, "",
                  Range(items) \ Range(newItems)))

SortNoArg ==
    Commit(sort(Start, FALSE, NoCmp), Op("sort", "", 0, <<>>, TRUE, items, "", {}))

SortWith(c) ==
    Commit(sort(Start, TRUE, c), Op("sort", c, 0, <<>>, TRUE, items, "", {}))

SetField(item, field, newVal) ==
    Commit(modelSet(Start, item, field, newVal),
           Op("set", field, item,
              CASE lastOp.op = "sort" -> lastOp.pre
                [] lastOp.op \in {"offAll", "modelOffAll"} -> lastOp.arr
                [] OTHER -> <<>>,
              TRUE, <<>>,
              IF lastOp.op \in {"sort", "reset", "offAll", "modelOff", "modelOffAny",
                                "modelOffAll"}
              THEN lastOp.op ELSE "",
              IF lastOp.op \in {"reset", "modelOff", "modelOffAny"} THEN lastOp.gone ELSE {}))

On(name, h) ==
    Commit(on(Start, name, h),
           Op("on", name, h, listenersOf(World, name), TRUE, <<>>, "", {}))

Off(name, h) ==
    Commit(off(Start, name, h),
           Op("off", name, h, listenersOf(World, name), TRUE, <<>>, "", {}))

\* on(name, h), the caller keeping the closure returned.
OnHeld(name, h) ==
    Commit(on(Start, name, h),
           [Op("on", name, h, listenersOf(World, name), TRUE, <<>>, "", {})
               EXCEPT !.held = lastOp.held \cup {[name |-> name, h |-> h, dead |-> FALSE]}])

\* A call of the unsubscribe closure c the caller has kept.
CallOff(c) ==
    Commit(off(Start, c.name, c.h),
           [Op("off", c.name, c.h, listenersOf(World, c.name), TRUE, <<>>,
               IF c.dead THEN "again" ELSE "", {})
               EXCEPT !.held = (lastOp.held \ {c}) \cup {[c EXCEPT !.dead = TRUE]}])

OffAll ==
    Commit(offAll(Start),
           [Op("offAll", "", 0,
               addListeners \o removeListeners \o resetListeners \o sortListeners
               \o changeListeners \o anyListeners, TRUE, <<>>, "", {})
               EXCEPT !.held = {[c EXCEPT !.dead = TRUE] : c \in lastOp.held}])

\* The callers register their handlers on the lists `names` one handler after
\* the other, each handler on the lists in the order of `names`: the pairs
\* (position in names, handler) not registered at present.
pending(names) ==
    {p \in (1..Len(names)) \X Handlers : p[2] \notin Range(listenersOf(World, names[p[1]]))}

\* The next registration of the callers.
OnNext(names) ==
    /\ pending(names) # {}
    /\ LET p == CHOOSE p \in pending(names) :
                    \A q \in pending(names) :
                        p[2] < q[2] \/ (p[2] = q[2] /\ p[1] <= q[1])
       IN  On(names[p[1]], p[2])

\* The next element of the caller's array is added.
AddNext ==
    /\ Len(items) < Len(input)
    /\ Add(input[Len(items) + 1])

\* -------------------------------------------------------- specifications

\* SpecSorted: collections of models with fixed keys, with and without a
\* comparator; adds, removes and sorts.
InitSorted ==
    \E st \in orderedStates, c \in Comparators \cup {NoCmp} :
        InitWith("ModelCollection", st, c, <<>>, <<>>, <<>>)

NextSorted ==
    \/ \E item \in Models \ Range(items) : Add(item)
    \/ \E item \in Models : Remove(item)
    \/ SortNoArg
    \/ \E c \in Comparators \cup {NoCmp} : SortWith(c)

SpecSorted == InitSorted /\ [][NextSorted]_vars

\* SpecFold: an empty sorted collection to which the elements of an array are
\* added one at a time, in the array's order.
InitFold ==
    \E st \in orderedStates, c \in Comparators, arr \in distinctSeqs(Models, MaxLen) :
        InitWith("ModelCollection", st, c, <<>>, <<>>, arr)

NextFold == AddNext

SpecFold == InitFold /\ [][NextFold]_vars

\* SpecEvents: the models 1, 2, ... are added in that order to an empty
\* collection while add and any-change listeners come and go.
InitEvents ==
    \E k \in {"ModelCollection", "SimpleCollection"}, c \in Comparators \cup {NoCmp} :
        InitWith(k, plainState, c, <<>>, <<>>, [i \in 1..NumModels |-> i])

NextEvents ==
    \/ AddNext
    \/ \E h \in Handlers \ Range(addListeners) : On("add", h)
    \/ \E h \in Range(addListeners) : Off("add", h)
    \/ \E h \in Handlers \ Range(anyListeners) : On("any", h)
    \/ \E h \in Range(anyListeners) : Off("any", h)

SpecEvents == InitEvents /\ [][NextEvents]_vars

\* SpecChange: a ModelCollection whose items come, go, are replaced and
\* re-sorted while their sort keys are rewritten (to the smallest or the
\* largest key) and change listeners come and go.
InitChange ==
    InitWith("ModelCollection", lowState, "asc", <<>>, <<>>, <<>>)

NextChange ==
    \/ \E item \in Watched \ Range(items) : Add(item)
    \/ \E item \in Watched : Remove(item)
    \/ \E index \in -1..Len(items) : RemoveAt(index)
    \/ \E newItems \in distinctSeqs(Watched, NumWatched) : Reset(newItems)
    \/ SortNoArg
    \/ \E item \in Watched, newVal \in {1, MaxKey} : SetField(item, "x", newVal)
    \/ \E h \in Handlers \ Range(changeListeners) : On("change", h)
    \/ \E h \in Range(changeListeners) : Off("change", h)

SpecChange == InitChange /\ [][NextChange]_vars

\* SpecRemove: collections with and without a comparator whose items come
\* and go, by item and by index, while remove and any-change listeners are
\* registered.  A SimpleCollection may hold the same value more than once.
InitRemove ==
    \E k \in {"ModelCollection", "SimpleCollection"}, c \in {NoCmp, "asc"} :
        InitWith(k, plainState, c, <<>>, <<>>, <<>>)

NextRemove ==
    \/ \E item \in Watched :
           /\ kind = "SimpleCollection" \/ item \notin Range(items)
           /\ Len(items) < NumWatched
           /\ Add(item)
    \/ \E item \in Watched : Remove(item)
    \/ \E index \in -1..Len(items) : RemoveAt(index)
    \/ OnNext(<<"remove", "any">>)

SpecRemove == InitRemove /\ [][NextRemove]_vars

\* SpecReset: collections whose items are replaced while add, remove, reset
\* and any-change listeners are registered.
InitReset ==
    \E k \in {"ModelCollection", "SimpleCollection"}, c \in {NoCmp, "asc"} :
        InitWith(k, plainState, c, <<>>, <<>>, <<>>)

NextReset ==
    \/ \E newItems \in distinctSeqs(Watched, NumWatched) : Reset(newItems)
    \/ OnNext(<<"add", "remove", "reset", "any">>)

SpecReset == InitReset /\ [][NextReset]_vars

\* SpecAny: collections under every structural operation while sort and
\* any-change listeners are registered and any-change listeners unsubscribed.
InitAny ==
    \E k \in {"ModelCollection", "SimpleCollection"}, c \in {NoCmp, "asc"} :
        InitWith(k, plainState, c, <<>>, <<>>, <<>>)

NextAny ==
    \/ \E item \in Watched \ Range(items) : Add(item)
    \/ \E item \in Watched : Remove(item)
    \/ \E index \in -1..Len(items) : RemoveAt(index)
    \/ \E newItems \in distinctSeqs(Watched, NumWatched) : Reset(newItems)
    \/ SortNoArg
    \/ OnNext(<<"sort", "any">>)
    \/ \E h \in Range(anyListeners) : Off("any", h)

SpecAny == InitAny /\ [][NextAny]_vars

\* SpecWrite: a sorted ModelCollection that receives the watched models in
\* turn while listeners of every kind are registered and the sort keys of
\* the models are rewritten (to the smallest or the largest key) and the
\* collection is re-sorted.
InitWrite ==
    InitWith("ModelCollection", lowState, "asc", <<>>, <<>>,
             [k \in 1..NumWatched |-> k])

NextWrite ==
    \/ AddNext
    \/ OnNext(<<"add", "remove", "reset", "sort", "change", "any">>)
    \/ \E item \in Watched, newVal \in {1, MaxKey} : SetField(item, "x", newVal)
    \/ SortNoArg

SpecWrite == InitWrite /\ [][NextWrite]_vars

\* SpecResort: collections constructed with the ascending comparator whose
\* comparator is replaced, cleared and re-applied between adds, while sort and
\* add listeners are registered.
InitResort ==
    \E k \in {"ModelCollection", "SimpleCollection"} :
        InitWith(k, plainState, "asc", <<>>, <<>>, <<>>)

NextResort ==
    \/ \E item \in Watched \ Range(items) : Add(item)
    \/ SortNoArg
    \/ \E c \in Comparators \cup {NoCmp} : SortWith(c)
    \/ OnNext(<<"sort", "add">>)

SpecResort == InitResort /\ [][NextResort]_vars

\* SpecOff: handlers are registered on the add and any-change lists, the
\* callers keep the closures and call them, any number of times, and offAll
\* is called in between.
InitOff ==
    \E k \in {"ModelCollection", "SimpleCollection"} :
        InitWith(k, plainState, NoCmp, <<>>, <<>>, <<>>)

NextOff ==
    \/ \E name \in {"add", "any"} :
           \E h \in Handlers \ Range(listenersOf(World, name)) : OnHeld(name, h)
    \/ \E c \in lastOp.held : CallOff(c)
    \/ OffAll

SpecOff == InitOff /\ [][NextOff]_vars

\* SpecReenter: unsorted collections of both kinds with a handler that calls
\* back into the collection among the add, remove and reset listeners.
Reentered == {1, 2}

InitReenter ==
    \E k \in {"ModelCollection", "SimpleCollection"} :
        InitWith(k, plainState, NoCmp, <<>>, <<>>, <<>>)

NextReenter ==
    \/ \E name \in {"add", "remove", "reset"}, h \in {1, Reentrant} :
           h \notin Range(listenersOf(World, name)) /\ On(name, h)
    \/ \E item \in Reentered \ Range(items) : Add(item)
    \/ \E item \in Range(items) : Remove(item)
    \/ \E newItems \in distinctSeqs(Reentered, 2) : Reset(newItems)

SpecReenter == InitReenter /\ [][NextReenter]_vars

\* model.on(key, h) and model.onAny(h)
ModelOn(item, key, h) ==
    Commit(modelOn(Start, item, key, h),
           Op("modelOn", key, h, modelListeners[item][key], TRUE, <<>>, "", {}))

ModelOnAny(item, h) ==
    Commit(modelOnAny(Start, item, h),
           Op("modelOnAny", "", h, modelAnyListeners[item], TRUE, <<>>, "", {}))

\* The closures model.on(key, h) and model.onAny(h) returned, and model.offAll()
ModelOff(item, key, h) ==
    Commit(modelOff(Start, item, key, h),
           Op("modelOff", key, h, modelListeners[item][key], TRUE, <<>>, "",
              {<<key, h>>}))

ModelOffAny(item, h) ==
    Commit(modelOffAny(Start, item, h),
           Op("modelOffAny", "", h, modelAnyListeners[item], TRUE, <<>>, "",
              {<<"", h>>}))

ModelOffAll(item) ==
    Commit(modelOffAll(Start, item),
           Op("modelOffAll", "", item,
              modelListeners[item]["x"] \o modelListeners[item]["y"]
              \o modelAnyListeners[item], TRUE, <<>>, "", {}))

\* model.update(subset)
Update(item, subset) ==
    Commit(update(Start, item, subset),
           Op("update", "", item, subset, TRUE, state[item], "", {}))

\* The objects callers pass to update, as the sequence of their <<key, value>>
\* pairs: no key, one key, or both keys in either order.
Subsets ==
    {<<>>}
    \cup {<<<<f, v>>>> : f \in Fields, v \in Keys \cup Others}
    \cup {<<<<f, v>>, <<g, u>>>> : f \in Fields, g \in Fields, v \in Keys \cup Others,
                                   u \in Keys \cup Others}

\* The models SpecModel observes.
Observed == {1}

\* SpecModel: a model outside any collection, with listeners registered for
\* its keys and for any key, written to by assignment and by update.
InitModel == InitWith("ModelCollection", plainState, NoCmp, <<>>, <<>>, <<>>)

NextModel ==
    \/ \E item \in Observed, key \in Fields, h \in Handlers :
           h \notin Range(modelListeners[item][key]) /\ ModelOn(item, key, h)
    \/ \E item \in Observed, h \in Handlers :
           (0 - h) \notin Range(modelAnyListeners[item]) /\ ModelOnAny(item, h)
    \/ \E item \in Observed, field \in Fields :
           \E newVal \in FieldValues(field) : SetField(item, field, newVal)
    \/ \E item \in Observed, subset \in Subsets :
           /\ \A k \in 1..Len(subset) : subset[k][2] \in FieldValues(subset[k][1])
           /\ \A j, k \in 1..Len(subset) : j # k => subset[j][1] # subset[k][1]
           /\ Update(item, subset)

SpecModel == InitModel /\ [][NextModel]_vars

\* add(item) on an array of up to MaxSearch items.
AddLong(item) ==
    /\ Len(items) <= MaxSearch
    /\ Commit(add(Start, item), Op("add", "", item, <<>>, TRUE, <<>>, "", {}))

\* SpecSearch: collections with a comparator, consistent or not, holding any
\* arrangement of up to MaxSearch values, to which one more is added.
InitSearch ==
    \E c \in Comparators \cup {Inconsistent}, n \in 1..MaxSearch :
        \E arr \in [1..n -> Watched] :
            InitWith("SimpleCollection", plainState, c, arr, arr, <<>>)

NextSearch == \E item \in Watched : AddLong(item)

SpecSearch == InitSearch /\ [][NextSearch]_vars

\* SpecWriter: ModelCollections with change listeners and, among the add and
\* remove listeners, a handler that writes to the item it is told of.
InitWriter == InitWith("ModelCollection", plainState, NoCmp, <<>>, <<>>, <<>>)

NextWriter ==
    \/ \E name \in {"add", "remove"} :
           Writer \notin Range(listenersOf(World, name)) /\ On(name, Writer)
    \/ \E h \in Handlers \ Range(changeListeners) : On("change", h)
    \/ \E item \in Reentered \ Range(items) : Add(item)
    \/ \E item \in Range(items) : Remove(item)
    \/ \E index \in 0..(Len(items) - 1) : RemoveAt(index)
    \/ \E newItems \in distinctSeqs(Reentered, 2) : Reset(newItems)
    \/ \E item \in Reentered : SetField(item, "y", 0)

SpecWriter == InitWriter /\ [][NextWriter]_vars

\* SpecTwice: unsorted ModelCollections in which a model may stand more than
\* once, by add or by reset, with change listeners, written to.  Callers
\* stop adding a model, and resetting, at MaxClosures subscriptions.
InitTwice == InitWith("ModelCollection", plainState, NoCmp, <<>>, <<>>, <<>>)

NextTwice ==
    \/ \E h \in Handlers \ Range(changeListeners) : On("change", h)
    \/ \E item \in Reentered :
           Len(modelAnyListeners[item]) < MaxClosures /\ Add(item)
    \/ \E item \in Range(items) : Remove(item)
    \/ \E newItems \in [1..2 -> Reentered] :
           /\ \A item \in Reentered : Len(modelAnyListeners[item]) < MaxClosures
           /\ Reset(newItems)
    \/ \E item \in Reentered : SetField(item, "y", 1)

SpecTwice == InitTwice /\ [][NextTwice]_vars

\* SpecReadd: unsorted ModelCollections with change listeners and, at times,
\* a remove listener that adds the removed item again.  Callers stop adding
\* a model at MaxClosures subscriptions.
InitReadd == InitWith("ModelCollection", plainState, NoCmp, <<>>, <<>>, <<>>)

NextReadd ==
    \/ Readder \notin Range(removeListeners) /\ On("remove", Readder)
    \/ Readder \in Range(removeListeners) /\ Off("remove", Readder)
    \/ \E h \in Handlers \ Range(changeListeners) : On("change", h)
    \/ \E item \in Reentered \ Range(items) :
           Len(modelAnyListeners[item]) < MaxClosures /\ Add(item)
    \/ \E item \in Range(items) : Remove(item)
    \/ \E item \in Reentered : SetField(item, "y", 1)

SpecReadd == InitReadd /\ [][NextReadd]_vars

\* push, unshift, pop and shift; arg is the item put in or taken out.
Push(item) ==
    /\ Len(items) < MaxLen
    /\ Commit(push(Start, item), Op("push", "", item, <<>>, TRUE, <<>>, "", {}))

Unshift(item) ==
    /\ Len(items) < MaxLen
    /\ Commit(unshift(Start, item), Op("unshift", "", item, <<>>, TRUE, <<>>, "", {}))

Pop ==
    Commit(pop(Start),
           Op("pop", "", IF items = <<>> THEN 0 ELSE items[Len(items)], <<>>,
              items # <<>>, <<>>, "", {}))

Shift ==
    Commit(shift(Start),
           Op("shift", "", IF items = <<>> THEN 0 ELSE items[1], <<>>,
              items # <<>>, <<>>, "", {}))

\* SpecPush: ModelCollections, sorted or not, with add, remove and any-change
\* listeners, changed through push, unshift, pop and shift.  Callers stop
\* putting a model in at MaxClosures subscriptions.
InitPush ==
    \E c \in {"asc", NoCmp} :
        InitWith("ModelCollection", plainState, c, <<>>, <<>>, <<>>)

NextPush ==
    \/ OnNext(<<"add", "remove", "any">>)
    \/ \E item \in Watched \ Range(items) :
           Len(modelAnyListeners[item]) < MaxClosures /\ Push(item)
    \/ \E item \in Watched \ Range(items) :
           Len(modelAnyListeners[item]) < MaxClosures /\ Unshift(item)
    \/ Pop
    \/ Shift

SpecPush == InitPush /\ [][NextPush]_vars

\* SpecUnsub: unsorted ModelCollections whose add listeners include, at
\* times, one that unsubscribes handler 1 and one that registers handler 2
\* while the add event is dispatched.
InitUnsub == InitWith("ModelCollection", plainState, NoCmp, <<>>, <<>>, <<>>)

NextUnsub ==
    \/ \E h \in {1, 2, Unsubscriber, Registrar} \ Range(addListeners) : On("add", h)
    \/ \E h \in Range(addListeners) : Off("add", h)
    \/ \E item \in Reentered \ Range(items) :
           ~(Registrar \in Range(addListeners) /\ 2 \in Range(addListeners)) /\ Add(item)
    \/ \E item \in Range(items) : Remove(item)

SpecUnsub == InitUnsub /\ [][NextUnsub]_vars

\* SpecModelApi: a ModelCollection with change listeners whose items other
\* code observes and stops observing through the items' own on, onAny,
\* unsubscribe closures and offAll, and writes to.
InitModelApi == InitWith("ModelCollection", plainState, NoCmp, <<1>>, <<1>>, <<>>)

NextModelApi ==
    \/ \E h \in Handlers \ Range(changeListeners) : On("change", h)
    \/ \E item \in Observed \ Range(items) : Add(item)
    \/ \E item \in Range(items) : Remove(item)
    \/ \E item \in Observed, h \in Handlers :
           h \notin Range(modelListeners[item]["y"]) /\ ModelOn(item, "y", h)
    \/ \E item \in Observed, h \in Handlers :
           (0 - h) \notin Range(modelAnyListeners[item]) /\ ModelOnAny(item, h)
    \/ \E item \in Observed, h \in Handlers : ModelOff(item, "y", h)
    \/ \E item \in Observed, h \in Handlers : ModelOffAny(item, h)
    \/ \E item \in Observed : ModelOffAll(item)
    \/ \E item \in Observed, newVal \in Others : SetField(item, "y", newVal)

SpecModelApi == InitModelApi /\ [][NextModelApi]_vars

\* SpecThrow: unsorted ModelCollections with change listeners and, at times,
\* a remove or any-change listener that throws.  Callers stop adding a model
\* at MaxClosures subscriptions.
InitThrow == InitWith("ModelCollection", plainState, NoCmp, <<>>, <<>>, <<>>)

NextThrow ==
    \/ \E name \in {"remove", "any"} :
           Thrower \notin Range(listenersOf(World, name)) /\ On(name, Thrower)
    \/ \E name \in {"remove", "any"} :
           Thrower \in Range(listenersOf(World, name)) /\ Off(name, Thrower)
    \/ changeListeners = <<>> /\ On("change", 1)
    \/ \E item \in Reentered \ Range(items) :
           Len(modelAnyListeners[item]) < MaxClosures /\ Add(item)
    \/ \E item \in Range(items) : Remove(item)
    \/ \E index \in 0..(Len(items) - 1) : RemoveAt(index)
    \/ \E item \in Reentered : SetField(item, "y", 1)

SpecThrow == InitThrow /\ [][NextThrow]_vars

\* SpecConstruct: ModelCollections constructed with a comparator from an
\* array of models, some of which compare equal, then given change listeners
\* and written to.
InitConstruct ==
    \E st \in orderedStates, c \in Comparators, arr \in distinctSeqs(Watched, NumWatched) :
        \E sorted \in sortedCopies(c, st, arr) :
            InitWith("ModelCollection", st, c, arr, sorted, arr)

NextConstruct ==
    \/ \E h \in Handlers \ Range(changeListeners) : On("change", h)
    \/ \E item \in Watched : SetField(item, "y", 1)

SpecConstruct == InitConstruct /\ [][NextConstruct]_vars

\* SpecModelOff: a model outside any collection whose listeners are
\* registered, unsubscribed one by one or all at once, and which is written to.
InitModelOff == InitWith("ModelCollection", plainState, NoCmp, <<>>, <<>>, <<>>)

NextModelOff ==
    \/ \E item \in Observed, key \in Fields, h \in Handlers :
           h \notin Range(modelListeners[item][key]) /\ ModelOn(item, key, h)
    \/ \E item \in Observed, h \in Handlers :
           (0 - h) \notin Range(modelAnyListeners[item]) /\ ModelOnAny(item, h)
    \/ \E item \in Observed, key \in Fields, h \in Handlers : ModelOff(item, key, h)
    \/ \E item \in Observed, h \in Handlers : ModelOffAny(item, h)
    \/ \E item \in Observed : ModelOffAll(item)
    \/ \E item \in Observed, field \in Fields :
           \E newVal \in FieldValues(field) : SetField(item, field, newVal)

SpecModelOff == InitModelOff /\ [][NextModelOff]_vars

\* The caller changes the array it passed, which becomes arr; the items
\* follow when the two are one array.
CallerChanges(name, arr) ==
    Settle([Start EXCEPT !.items = IF shared THEN arr ELSE @],
           Op("caller", name, 0, <<>>, TRUE, input,
              IF lastOp.op \in {"new", "reset"} THEN lastOp.op ELSE "", {}),
           arr)

CallerPush(item) == Len(input) < MaxLen /\ CallerChanges("push", Append(input, item))

CallerPop == input # <<>> /\ CallerChanges("pop", SubSeq(input, 1, Len(input) - 1))

CallerReverse == input # reversed(input) /\ CallerChanges("reverse", reversed(input))

\* reset(newItems) with the array the caller holds.
ResetInput ==
    \E sorted \in sortedCopies(cmp, state, input) :
        Commit(reset(Start, sorted), Op("reset", "", 0, input, TRUE, <<>>, "",
                  Range(items) \ Range(input)))

\* SpecCopy: collections of both kinds, sorted or not, made from an array the
\* caller keeps and changes, and reset to, while the collection is added to
\* and sorted.
InitCopy ==
    \E k \in {"ModelCollection", "SimpleCollection"}, c \in {"asc", NoCmp},
       arr \in distinctSeqs(Watched, 2) :
        \E sorted \in sortedCopies(c, plainState, arr) :
            InitWith(k, plainState, c, arr, sorted,
                     IF arrayFrom(sorted).shared THEN sorted ELSE arr)

NextCopy ==
    \/ \E item \in Watched \ Range(input) : CallerPush(item)
    \/ CallerPop
    \/ CallerReverse
    \/ ResetInput
    \/ \E item \in Watched \ Range(items) : Add(item)
    \/ SortWith("desc")

SpecCopy == InitCopy /\ [][NextCopy]_vars

\* forEach(fn) with a visitor of the caller.
ForEach(fn) ==
    Commit(forEach(Start, fn), Op("forEach", fn, 0, <<>>, TRUE, items, "", {}))

\* SpecIterate: collections of both kinds, sorted or not, that are added to,
\* removed from and visited with forEach.  An item taken out by a visitor
\* keeps its subscription, so an item is added only while it has fewer than
\* MaxClosures of them.
InitIterate ==
    \E k \in {"ModelCollection", "SimpleCollection"}, c \in {"asc", NoCmp} :
        InitWith(k, plainState, c, <<>>, <<>>, <<>>)

NextIterate ==
    \/ \E item \in Watched \ Range(items) :
           Len(modelAnyListeners[item]) < MaxClosures /\ Add(item)
    \/ \E item \in Range(items) : Remove(item)
    \/ \E fn \in Callbacks : ForEach(fn)

SpecIterate == InitIterate /\ [][NextIterate]_vars

\* A call of one of the refused methods.
Unsupported(name) ==
    Commit(unsupported(Start, name), Op("unsupported", name, 0, <<>>, FALSE, <<>>, "", {}))

\* SpecUnsupported: collections of both kinds, sorted or not, with items and
\* listeners, on which the refused methods are called.
InitUnsupported ==
    \E k \in {"ModelCollection", "SimpleCollection"}, c \in {"asc", NoCmp} :
        InitWith(k, plainState, c, <<>>, <<>>, <<3, 1, 2>>)

NextUnsupported ==
    \/ AddNext
    \/ OnNext(<<"add", "any">>)
    \/ \E name \in unsupportedNames : Unsupported(name)

SpecUnsupported == InitUnsupported /\ [][NextUnsupported]_vars

\* The event names of a collection of kind k.
eventNames(k) ==
    IF k = "ModelCollection"
    THEN <<"add", "remove", "reset", "sort", "change", "any">>
    ELSE <<"add", "remove", "reset", "sort", "any">>

\* SpecOffAll: sorted collections with listeners of every kind registered,
\* offAll called, and every operation that notifies listeners called before
\* and after it.
InitOffAll ==
    \E k \in {"ModelCollection", "SimpleCollection"} :
        InitWith(k, plainState, "asc", <<>>, <<>>, <<>>)

NextOffAll ==
    \/ OnNext(eventNames(kind))
    \/ OffAll
    \/ \E item \in Watched \ Range(items) : Add(item)
    \/ \E item \in Range(items) : Remove(item)
    \/ \E newItems \in distinctSeqs(Watched, 1) : Reset(newItems)
    \/ SortNoArg
    \/ \E newVal \in Others : SetField(1, "y", newVal)

SpecOffAll == InitOffAll /\ [][NextOffAll]_vars

\* SpecCollection: the earlier Collection class with a comparator: adds and
\* removes of items with fixed keys.
InitCollection ==
    \E st \in orderedStates, c \in Comparators :
        InitWith("Collection", st, c, <<>>, <<>>, <<>>)

NextCollection ==
    \/ \E item \in Models \ Range(items) : Add(item)
    \/ \E item \in Models : Remove(item)

SpecCollection == InitCollection /\ [][NextCollection]_vars

\* ------------------------------------------------------------------ claims

\* The index an add inserted at (the first entry of its trace) and the items
\* before it.
addedAt == log[1].index
beforeAdd == spliceDelete(items, addedAt)

sortedAdd == lastOp.op = "add" /\ cmp # NoCmp /\ isSorted(cmp, state, beforeAdd)

\* C1: after an add to a sorted collection with a comparator, every adjacent
\* pair of items satisfies cmp(items[i], items[i+1]) <= 0.
C1_SortedAfterAdd == sortedAdd => isSorted(cmp, state, items)

\* C2: an add to a sorted collection puts the item after every item already
\* there that compares equal to it.
C2_AfterEqualItems ==
    sortedAdd =>
        \A q \in 1..Len(items) :
            (q # addedAt + 1 /\ cmpCall(cmp, state, lastOp.arg, items[q]) = 0)
                => q < addedAt + 1

\* The case of C2: the added item had two equal items before it and a greater
\* one after it.
C2_Witness ==
    /\ sortedAdd
    /\ addedAt >= 2 /\ addedAt + 1 < Len(items)
    /\ \A q \in 1..addedAt : cmpCall(cmp, state, lastOp.arg, items[q]) = 0

\* A stable sort of arr, by insertion: each element goes after the elements
\* already placed that are not greater than it.
RECURSIVE referenceInsert(_, _, _, _)
referenceInsert(c, st, placed, v) ==
    IF placed = <<>> \/ cmpCall(c, st, placed[Len(placed)], v) <= 0
    THEN Append(placed, v)
    ELSE Append(referenceInsert(c, st, SubSeq(placed, 1, Len(placed) - 1), v),
                placed[Len(placed)])

RECURSIVE referenceSort(_, _, _)
referenceSort(c, st, arr) ==
    IF arr = <<>>
    THEN <<>>
    ELSE referenceInsert(c, st, referenceSort(c, st, SubSeq(arr, 1, Len(arr) - 1)),
                         arr[Len(arr)])

\* C3: a sort with a comparator in effect leaves a sorted permutation of the
\* previous items in which items that compare equal keep their previous
\* relative order: the result of a reference stable sort.
C3_StableSort ==
    (lastOp.op = "sort" /\ cmp # NoCmp) =>
        /\ isPermutation(items, lastOp.pre)
        /\ isSorted(cmp, state, items)
        /\ \A i, j \in 1..Len(items) :
               (i < j /\ cmpCall(cmp, state, items[i], items[j]) = 0)
                   => indexOf(lastOp.pre, items[i]) < indexOf(lastOp.pre, items[j])
        /\ items = referenceSort(cmp, state, lastOp.pre)

\* The case of C3: a sort of four items that were out of order, two of which
\* compare equal and stood in the opposite order of their numbers.
C3_Witness ==
    /\ lastOp.op = "sort" /\ cmp # NoCmp
    /\ Len(items) >= 4
    /\ ~isSorted(cmp, state, lastOp.pre)
    /\ \E i, j \in 1..Len(items) :
           /\ i < j /\ items[i] > items[j]
           /\ cmpCall(cmp, state, items[i], items[j]) = 0

\* C4: adding the elements of an array one at a time to an empty collection
\* with a comparator gives the order that sorting the array with the merge
\* sort gives.
C4_AddsAgreeWithSort ==
    (lastOp.op \in {"new", "add"} /\ input # <<>>) =>
        items = mergesort(cmp, state, SubSeq(input, 1, Len(items)))

\* The invocations of the listeners of `list` in the trace, in order.
callsOf(list) == SelectSeq(log, LAMBDA e : e.what = "call" /\ e.list = list)

\* C5: the index an add to a sorted collection passes to the add listeners is
\* the item's sorted position: the number of items already there that the
\* item does not compare below.
C5_AddIndexIsSortedPosition ==
    sortedAdd =>
        \A k \in 1..Len(callsOf("add")) :
            callsOf("add")[k].index =
                Cardinality({q \in 1..Len(beforeAdd) :
                                cmpCall(cmp, state, lastOp.arg, beforeAdd[q]) >= 0})

\* C6: the N-th add to an empty collection without a comparator appends the
\* item and calls every add listener with (vN, N - 1); the call of an
\* unsubscribe closure leaves the list without its handler, which no later add
\* calls.
C6_UnsortedAddEvents ==
    /\ (lastOp.op = "add" /\ cmp = NoCmp) =>
           /\ items = SubSeq(input, 1, Len(items))
           /\ callsOf("add") =
                  [k \in 1..Len(addListeners) |->
                      Ev("call", "add", addListeners[k], input[Len(items)],
                         Len(items) - 1, "", 0, 0)]
    /\ (lastOp.op = "off" /\ lastOp.name = "add") =>
           /\ lastOp.arg \notin Range(addListeners)
           /\ addListeners = filterOut(lastOp.arr, lastOp.arg)

\* The case of C6: the third add reaches the one handler left after the other
\* of two was unsubscribed.
C6_Witness ==
    /\ lastOp.op = "add" /\ cmp = NoCmp
    /\ Len(items) = 3
    /\ Len(addListeners) = 1
    /\ Len(callsOf("add")) = 1
    /\ callsOf("add")[1].index = 2

\* The change listener invocations a write of field y of model m would cause
\* in the current state.
forwarded(m) ==
    SelectSeq(modelSet(Start, m, "y", state[m].y).log,
              LAMBDA e : e.what = "call" /\ e.list = "change")

\* C7: after construction and after every call, a model is subscribed to (one
\* closure of the collection is registered on it, the one the collection's
\* map holds, and a write to it reaches every change listener) exactly when
\* it is among the items; any other model has no closure registered, no map
\* entry, and a write to it reaches no change listener.
C7_SubscribedIffPresent ==
    \A m \in Models :
        IF m \in Range(items)
        THEN /\ Len(modelAnyListeners[m]) = 1
             /\ modelListenerMap[m] = modelAnyListeners[m][1]
             /\ Len(forwarded(m)) = Len(changeListeners)
        ELSE /\ modelAnyListeners[m] = <<>>
             /\ modelListenerMap[m] = 0
             /\ forwarded(m) = <<>>

\* The case of C7: a reset has replaced some items and kept or brought in
\* others, with change listeners registered.
C7_Witness ==
    /\ lastOp.op = "reset"
    /\ lastOp.gone # {}
    /\ items # <<>>
    /\ Len(changeListeners) = 2

\* The calls of the change listeners a write of lastOp.name of model
\* lastOp.arg is to cause: one for each change listener, in registration
\* order, with the item, its present index, the field, and the new and the
\* old value.
changeCalls ==
    [k \in 1..Len(changeListeners) |->
        Ev("call", "change", changeListeners[k], lastOp.arg,
           indexOf(items, lastOp.arg), lastOp.name,
           state[lastOp.arg][lastOp.name], log[1].prev)]

\* C8: a write to a field of an item calls every change listener with
\* (item, index, field, newValue, oldValue), index being the position of the
\* item in items at the time of the write.
C8_ChangeReportsCurrentIndex ==
    (lastOp.op = "set" /\ lastOp.arg \in Range(items)) =>
        /\ log[1] = Ev("write", "", 0, lastOp.arg, 0, lastOp.name,
                       state[lastOp.arg][lastOp.name], log[1].prev)
        /\ callsOf("change") = changeCalls
        /\ Len(log) = 1 + Len(changeListeners)

\* The case of C8: the write follows a sort that moved the item, and it is
\* not the last of the items.
C8_Witness ==
    /\ lastOp.op = "set" /\ lastOp.after = "sort"
    /\ lastOp.arg \in Range(items)
    /\ lastOp.arg \in Range(lastOp.arr)
    /\ indexOf(lastOp.arr, lastOp.arg) # indexOf(items, lastOp.arg)
    /\ indexOf(items, lastOp.arg) < Len(items) - 1
    /\ Len(changeListeners) = 2

C10_AddDispatchOrder ==
    /\ lastOp.op = "add" =>
           /\ items[addedAt + 1] = lastOp.arg
           /\ log = <<Effect(log[1].what, lastOp.arg, addedAt)>>
                    \o (IF kind = "ModelCollection"
                        THEN <<Effect("track", lastOp.arg, 0)>> ELSE <<>>)
                    \o callAll("add", addListeners, lastOp.arg, addedAt)
                    \o callAll("any", anyListeners, 0, 0)
           /\ log[1].what \in {"push", "splice"}
           /\ kind = "ModelCollection" =>
                  /\ modelListenerMap[lastOp.arg] # 0
                  /\ modelListenerMap[lastOp.arg] \in Range(modelAnyListeners[lastOp.arg])
    /\ lastOp.op = "on" =>
           listenersOf(World, lastOp.name) = Append(lastOp.arr, lastOp.arg)

\* The case of C10: an add to a ModelCollection with two add listeners and two
\* any-change listeners, registered in the opposite order of their numbers.
C10_Witness ==
    /\ lastOp.op = "add" /\ kind = "ModelCollection"
    /\ addListeners = <<2, 1>> /\ anyListeners = <<2, 1>>
    /\ Len(log) = 6
    /\ log[3].h = 2 /\ log[4].h = 1 /\ log[3].list = "add" /\ log[6].list = "any"

\* The fields of the collection and the subscriptions on the models are as
\* they were before the step, and the step invoked no listener and had no
\* other effect.
nothingDone ==
    /\ log' = <<>>
    /\ UNCHANGED <<kind, items, cmp, addListeners, removeListeners, resetListeners,
                   sortListeners, anyListeners, changeListeners, modelListenerMap,
                   state, modelAnyListeners>>

\* C11: a remove of an item that is not in the collection returns false,
\* changes no field of the collection and no subscription, and invokes no
\* listener.
C11_RemoveAbsent ==
    [][(lastOp'.op = "remove" /\ lastOp'.arg \notin Range(items))
           => (lastOp'.ret = FALSE /\ nothingDone)]_vars

\* The case of C11: a remove of an absent item from a collection that holds
\* other items and has remove and any-change listeners.
C11_Witness ==
    /\ lastOp.op = "remove" /\ lastOp.ret = FALSE
    /\ lastOp.arg \notin Range(items)
    /\ Len(items) >= 2
    /\ Len(removeListeners) = 2 /\ Len(anyListeners) = 2

\* The index a successful remove or removeAt step removes at: that of the
\* first element identical to the item, or the index passed.
removedAt ==
    IF lastOp'.op = "remove"
    THEN (CHOOSE q \in 1..Len(items) :
              items[q] = lastOp'.arg /\ \A r \in 1..(q - 1) : items[r] # lastOp'.arg) - 1
    ELSE lastOp'.arg

C13_RemoveAtOutOfRange ==
    [][(lastOp'.op = "removeAt" /\ (lastOp'.arg < 0 \/ lastOp'.arg >= Len(items)))
           => (lastOp'.ret = FALSE /\ nothingDone)]_vars

\* The case of C13: removeAt(-1) on a collection that holds items and has
\* remove and any-change listeners.
C13_Witness ==
    /\ lastOp.op = "removeAt" /\ lastOp.ret = FALSE
    /\ lastOp.arg = -1
    /\ Len(items) >= 2
    /\ Len(removeListeners) = 2 /\ Len(anyListeners) = 2

\* The listener invocations of the trace, in order.
calls == SelectSeq(log, LAMBDA e : e.what = "call")

\* C14: a reset calls every reset listener once, then every any-change
\* listener once, and no other listener, however many items it replaces.
C14_OneResetEvent ==
    lastOp.op = "reset" =>
        calls = callAll("reset", resetListeners, 0, 0) \o callAll("any", anyListeners, 0, 0)

\* The case of C14: a reset that dropped two items and kept or brought in
\* another, with two listeners of each kind registered.
C14_Witness ==
    /\ lastOp.op = "reset"
    /\ Cardinality(lastOp.gone) >= 2
    /\ items # <<>>
    /\ Len(addListeners) = 2 /\ Len(removeListeners) = 2
    /\ Len(resetListeners) = 2 /\ Len(anyListeners) = 2

\* C15: an add, a remove or removeAt that returns true, and a reset call each
\* registered any-change handler once; a remove or removeAt that returns false
\* calls none; the unsubscribe closure takes its handler off the list, so no
\* later operation calls it.
C15_AnyOncePerChange ==
    /\ (\/ lastOp.op \in {"add", "reset"}
        \/ lastOp.op \in {"remove", "removeAt"} /\ lastOp.ret = TRUE)
           => /\ callsOf("any") = callAll("any", anyListeners, 0, 0)
              /\ \A h \in Handlers :
                     Cardinality({k \in 1..Len(log) :
                                     log[k].what = "call" /\ log[k].list = "any"
                                     /\ log[k].h = h})
                         = IF h \in Range(anyListeners) THEN 1 ELSE 0
    /\ (lastOp.op \in {"remove", "removeAt"} /\ lastOp.ret = FALSE)
           => callsOf("any") = <<>>
    /\ (lastOp.op = "off" /\ lastOp.name = "any")
           => /\ lastOp.arg \notin Range(anyListeners)
              /\ anyListeners = filterOut(lastOp.arr, lastOp.arg)

\* The case of C15: a successful remove after the first of two any-change
\* handlers was unsubscribed (handler 1 registers before handler 2).
C15_Witness ==
    /\ lastOp.op = "remove" /\ lastOp.ret = TRUE
    /\ anyListeners = <<2>>
    /\ Len(callsOf("any")) = 1
    /\ callsOf("any")[1].h = 2

\* C16: a sort with a comparator in effect calls every sort listener and then
\* every any-change listener.
C16_SortNotifiesAny ==
    (lastOp.op = "sort" /\ cmp # NoCmp) =>
        calls = callAll("sort", sortListeners, 0, 0) \o callAll("any", anyListeners, 0, 0)

\* C17: a write to a field of an item of the collection invokes change
\* listeners only, and leaves the items, the comparator, the listener lists
\* and the subscriptions as they were.
C17_WriteInvokesChangeOnly ==
    [][(lastOp'.op = "set" /\ lastOp'.arg \in Range(items))
           => /\ \A k \in 1..Len(log') :
                     log'[k].what = "call" => log'[k].list = "change"
              /\ \A k \in 2..Len(log') : log'[k].what = "call"
              /\ UNCHANGED <<kind, items, cmp, addListeners, removeListeners,
                             resetListeners, sortListeners, anyListeners,
                             changeListeners, modelListenerMap, modelAnyListeners>>]_vars

\* The case of C17: a write that changes the sort key of an item of the
\* collection while two listeners of every kind are registered.
C17_Witness ==
    /\ lastOp.op = "set" /\ lastOp.name = "x"
    /\ lastOp.arg \in Range(items)
    /\ log[1].curr # log[1].prev
    /\ Len(callsOf("change")) = 2
    /\ Len(addListeners) = 2 /\ Len(removeListeners) = 2 /\ Len(resetListeners) = 2
    /\ Len(sortListeners) = 2 /\ Len(anyListeners) = 2

\* C18: a sort with a comparator argument stores that comparator, leaves the
\* items as a stable sort under it leaves them, and calls every sort listener
\* once; an add to the collection so sorted keeps it sorted under the stored
\* comparator.
C18_SortReplacesComparator ==
    /\ (lastOp.op = "sort" /\ lastOp.name \in Comparators)
           => /\ cmp = lastOp.name
              /\ items = referenceSort(lastOp.name, state, lastOp.pre)
              /\ calls = callAll("sort", sortListeners, 0, 0)
    /\ sortedAdd => isSorted(cmp, state, items)

\* The part of C18 that is about the sort call alone.
sortStoresComparator ==
    (lastOp.op = "sort" /\ lastOp.name \in Comparators)
        => /\ cmp = lastOp.name
           /\ items = referenceSort(lastOp.name, state, lastOp.pre)
           /\ calls = callAll("sort", sortListeners, 0, 0)

\* C19: a sort without argument keeps the comparator; with a comparator set it
\* leaves the items as a stable sort leaves them and calls every sort listener
\* once; with none set it changes nothing and invokes no listener.
C19_SortNoArgument ==
    [][(lastOp'.op = "sort" /\ lastOp'.name = "")
           => IF cmp # NoCmp
              THEN /\ cmp' = cmp
                   /\ items' = referenceSort(cmp, state, items)
                   /\ SelectSeq(log', LAMBDA e : e.what = "call")
                          = callAll("sort", sortListeners, 0, 0)
                   /\ UNCHANGED <<sortListeners, addListeners, anyListeners>>
              ELSE nothingDone]_vars

\* The case of C19: a sort without argument of three items that were in order
\* already, with two sort listeners.
C19_Witness ==
    /\ lastOp.op = "sort" /\ lastOp.name = ""
    /\ cmp # NoCmp
    /\ Len(items) = 3 /\ lastOp.pre = items
    /\ Len(calls) = 2

\* C20: sort(undefined) clears the comparator, leaves the items and
\* everything else as they were and invokes no listener; an add to a
\* collection without comparator appends the item and reports the length before
\* the call as its index.
C20_SortUndefined ==
    [][/\ (lastOp'.op = "sort" /\ lastOp'.name = NoCmp)
           => /\ cmp' = NoCmp
              /\ log' = <<>>
              /\ UNCHANGED <<kind, items, addListeners, removeListeners, resetListeners,
                             sortListeners, anyListeners, changeListeners,
                             modelListenerMap, state, modelAnyListeners>>
       /\ (lastOp'.op = "add" /\ cmp = NoCmp)
           => /\ cmp' = NoCmp
              /\ items' = Append(items, lastOp'.arg)
              /\ SelectSeq(log', LAMBDA e : e.what = "call" /\ e.list = "add")
                     = callAll("add", addListeners, lastOp'.arg, Len(items))]_vars

\* The case of C20: after the comparator of the construction was cleared, an
\* add appends an item that is smaller than the first item, with two add
\* listeners registered.
C20_Witness ==
    /\ lastOp.op = "add" /\ cmp = NoCmp
    /\ Len(items) = 3
    /\ items[3] = lastOp.arg
    /\ cmpCall("asc", state, lastOp.arg, items[1]) < 0
    /\ Len(callsOf("add")) = 2
    /\ callsOf("add")[1].index = 2

\* C21: a write to a field of an item leaves the items in the order they
\* had, also when they are out of order under the comparator afterwards; a step
\* that is not a sort never reorders the items it keeps, and a sort leaves
\* them in order.
C21_WriteKeepsOrder ==
    [][/\ lastOp'.op = "set" => items' = items
       /\ lastOp'.op # "sort" =>
              SelectSeq(items', LAMBDA m : m \in Range(items)) = items
       /\ (lastOp'.op = "sort" /\ cmp' # NoCmp) => isSorted(cmp', state', items')]_vars

\* The case of C21: a write has raised the sort key of the first of three
\* items above that of the others, and the items are out of order.
C21_Witness ==
    /\ lastOp.op = "set" /\ lastOp.name = "x"
    /\ Len(items) = 3
    /\ lastOp.arg = items[1]
    /\ ~isSorted(cmp, state, items)
    /\ changeListeners # <<>>

\* The six listener lists are as they were before the step.
listsUnchanged ==
    UNCHANGED <<addListeners, removeListeners, resetListeners, sortListeners,
                anyListeners, changeListeners>>

\* C22: a call of an unsubscribe closure that has been called before, or that
\* on returned before an offAll, leaves every listener list as it was.
C22_DeadClosureRemovesNothing ==
    [][(lastOp'.op = "off" /\ lastOp'.after = "again") => listsUnchanged]_vars

\* The list of the listeners of `name` as the step leaves it.
listAfter(name) ==
    CASE name = "add" -> addListeners'
      [] name = "remove" -> removeListeners'
      [] name = "reset" -> resetListeners'
      [] name = "sort" -> sortListeners'
      [] name = "change" -> changeListeners'
      [] name = "any" -> anyListeners'

noListeners ==
    /\ addListeners = <<>> /\ removeListeners = <<>> /\ resetListeners = <<>>
    /\ sortListeners = <<>> /\ anyListeners = <<>> /\ changeListeners = <<>>

\* C24: an offAll leaves every listener list empty, and an operation that
\* starts while they are empty (no handler having been registered since)
\* invokes no handler.
C24_OffAllSilences ==
    [][/\ lastOp'.op = "offAll" => noListeners'
       /\ (noListeners /\ lastOp'.op # "on") =>
              SelectSeq(log', LAMBDA e : e.what = "call") = <<>>]_vars

\* The case of C24: a write to a member item right after an offAll that found
\* two handlers on each of the six lists.
C24_Witness ==
    /\ lastOp.op = "set" /\ lastOp.after = "offAll"
    /\ Len(lastOp.arr) = 6 * NumHandlers
    /\ lastOp.arg \in Range(items)
    /\ log[1].curr # log[1].prev
    /\ Len(log) = 1

\* C26: a call of reverse, splice, fill, copyWithin, keys or values throws
\* at once and changes neither the items, nor the comparator, nor a listener
\* list, nor a subscription.
C26_UnsupportedThrows ==
    [][lastOp'.op = "unsupported" =>
          /\ log' = <<Effect("throw", 0, 0)>>
          /\ UNCHANGED <<kind, items, cmp, addListeners, removeListeners, resetListeners,
                         sortListeners, anyListeners, changeListeners, modelListenerMap,
                         state, modelAnyListeners>>]_vars

\* The case of C26: reverse() called on a collection whose items read
\* differently backwards and which has listeners.
C26_Witness ==
    /\ lastOp.op = "unsupported" /\ lastOp.name = "reverse"
    /\ items # reversed(items)
    /\ addListeners # <<>> /\ anyListeners # <<>>
    /\ log = <<Effect("throw", 0, 0)>>

\* C27: the items change only in a call of add, remove, removeAt, reset or
\* sort; a visitor passed to forEach cannot change them.
C27_OnlyTheApiChangesItems ==
    [][items' # items => lastOp'.op \in {"add", "remove", "removeAt", "reset", "sort"}]_vars

\* C28: the constructor and reset store a copy of the array they are given:
\* a change the caller makes to its array leaves the items as they were, and
\* no call of the collection, sorting included, changes the caller's array.
C28_StoresCopy ==
    [][IF lastOp'.op = "caller" THEN items' = items ELSE input' = input]_vars

\* The case of C28: the caller reversed, or took from or added to, the array
\* it had just passed to reset on an unsorted collection, and the items are
\* still what the array held.
C28_Witness ==
    /\ lastOp.op = "caller" /\ lastOp.after = "reset"
    /\ cmp = NoCmp
    /\ Len(items) >= 2
    /\ items = lastOp.pre
    /\ input # items

\* The invocations a write of curr over prev to a field of a model owes: the
\* listeners registered for the field, in order, then the onAny listeners, in
\* order, each once.
owed(item, field, curr, prev) ==
    [k \in 1..Len(modelListeners[item][field]) |->
        Ev("call", "on", modelListeners[item][field][k], item, 0, field, curr, prev)]
    \o [k \in 1..Len(modelAnyListeners[item]) |->
        Ev("call", "onAny", 0 - modelAnyListeners[item][k], item, 0, field, curr, prev)]

\* C29: an assignment to a field of a model stores the value and, before it
\* returns, invokes each listener registered for that field and then each
\* onAny listener, once, with the new and the old value, and no listener of
\* another field.
C29_SetterNotifies ==
    lastOp.op = "set" =>
        /\ log[1].what = "write"
        /\ state[lastOp.arg][lastOp.name] = log[1].curr
        /\ Tail(log) = owed(lastOp.arg, lastOp.name, log[1].curr, log[1].prev)

\* The case of C29: x is assigned a different value on a model with two
\* listeners for x, one for y and two onAny listeners.
C29_Witness ==
    /\ lastOp.op = "set" /\ lastOp.name = "x"
    /\ log[1].curr # log[1].prev
    /\ Len(modelListeners[lastOp.arg]["x"]) = 2
    /\ Len(modelListeners[lastOp.arg]["y"]) = 1
    /\ Len(modelAnyListeners[lastOp.arg]) = 2
    /\ Len(log) = 5

\* The writes update(subset) makes to a model whose fields were prev, and the
\* invocations it owes, key after key of subset.
RECURSIVE owedWrites(_, _, _)
owedWrites(item, subset, prev) ==
    IF subset = <<>> THEN <<>>
    ELSE <<Ev("write", "", 0, item, 0, subset[1][1], subset[1][2], prev[subset[1][1]])>>
         \o owedWrites(item, Tail(subset), prev)

RECURSIVE owedCalls(_, _, _)
owedCalls(item, subset, prev) ==
    IF subset = <<>> THEN <<>>
    ELSE owed(item, subset[1][1], subset[1][2], prev[subset[1][1]])
         \o owedCalls(item, Tail(subset), prev)

backAt(i) ==
    LET back == {j \in (i + 1)..Len(log) :
                    log[j].what = "returned" /\ log[j].list = log[i].list}
    IN  IF back = {} THEN 0 ELSE CHOOSE j \in back : \A k \in back : j <= k

\* C25: a call a listener makes into the collection during a dispatch is
\* over before the next listener of that dispatch is invoked, and it finds
\* the change of the outer call made: the remove(item) of an add listener
\* finds the item where it was announced, the remove(item) of a remove
\* listener finds it gone, and the removeAt(0) of a reset listener removes
\* the first of the new items.
C25_NestedCallSeesMutation ==
    \A i \in 1..Len(log) :
        (log[i].what = "call" /\ log[i].h = Reentrant
                              /\ log[i].list \in {"add", "remove", "reset"}) =>
            LET j == backAt(i)
            IN  /\ j > i
                /\ \A k \in (i + 1)..(j - 1) :
                       ~(log[k].what = "call" /\ log[k].list = log[i].list)
                /\ log[i].list = "add" =>
                       /\ log[j].curr = 1
                       /\ log[i + 1] = Effect("splice", log[i].item, log[i].index)
                /\ log[i].list = "remove" => (j = i + 1 /\ log[j].curr = 0)
                /\ log[i].list = "reset" =>
                       IF lastOp.arr = <<>>
                       THEN j = i + 1 /\ log[j].curr = 0
                       ELSE /\ log[j].curr = 1
                            /\ log[i + 1] = Effect("splice", lastOp.arr[1], 0)

\* The case of C25: an add whose first add listener removed the item again,
\* the remove listeners hearing of it before the second add listener was
\* invoked.
C25_Witness ==
    /\ lastOp.op = "add"
    /\ addListeners = <<Reentrant, 1>>
    /\ Len(removeListeners) = 2
    /\ lastOp.arg \notin Range(items)
    /\ \E i, j \in 1..Len(log) :
           /\ i < j
           /\ log[i].what = "returned" /\ log[i].list = "add"
           /\ log[j].what = "call" /\ log[j].list = "add" /\ log[j].h = 1

\* C31: on a model, the closure on(key, h) or onAny(h) returned takes h, and
\* nothing else, off its list; offAll leaves no listener at all; no other call
\* changes the lists; and a write invokes the listeners then registered for
\* the field and for any field, and no other.
C31_ModelUnsubscribe ==
    [][\A item \in Observed :
        /\ lastOp'.op = "modelOff" =>
              /\ modelListeners'[item] =
                     [modelListeners[item] EXCEPT ![lastOp'.name] = filterOut(@, lastOp'.arg)]
              /\ modelAnyListeners' = modelAnyListeners
        /\ lastOp'.op = "modelOffAny" =>
              /\ modelAnyListeners'[item] = filterOut(modelAnyListeners[item], 0 - lastOp'.arg)
              /\ modelListeners' = modelListeners
        /\ lastOp'.op = "modelOffAll" =>
              /\ \A f \in Fields : modelListeners'[item][f] = <<>>
              /\ modelAnyListeners'[item] = <<>>
        /\ lastOp'.op = "set" =>
              /\ UNCHANGED <<modelListeners, modelAnyListeners>>
              /\ Tail(log') = owed(lastOp'.arg, lastOp'.name, log'[1].curr, log'[1].prev)]_vars

\* The case of C31: a write to a field right after the closure of one of two
\* listeners of that field was called; the other listener is invoked, the
\* unsubscribed one is not.
C31_Witness ==
    /\ lastOp.op = "set" /\ lastOp.after = "modelOff"
    /\ \E h \in Handlers :
           /\ lastOp.gone = {<<lastOp.name, h>>}
           /\ \E i \in 1..Len(log) : log[i].what = "call" /\ log[i].list = "on" /\ log[i].h # h
           /\ \A i \in 1..Len(log) : log[i].what = "call" /\ log[i].list = "on" => log[i].h # h
    /\ modelAnyListeners[lastOp.arg] # <<>>

\* C32: a collection constructed with a comparator holds its initial items
\* in the order the stable sort gives them, each of them subscribed, and a
\* write to one of them reaches every change listener with the index the
\* item has.
C32_ConstructedSorted ==
    /\ (lastOp.op = "new" /\ cmp # NoCmp) =>
          /\ items = referenceSort(cmp, state, lastOp.arr)
          /\ \A m \in Models : (modelListenerMap[m] # 0) <=> (m \in Range(items))
    /\ (lastOp.op = "set" /\ lastOp.arg \in Range(items)) =>
          callsOf("change") = changeCalls

\* The least k with 2^k >= n.
ceilLog2(n) == CHOOSE k \in 0..n : 2^k >= n /\ \A j \in 0..(k - 1) : 2^j < n

\* C33: on n >= 1 items and with any comparator, the search of add ends
\* after at most ceil(log2(n)) + 1 comparator calls with an index in 0..n,
\* at which add inserts.
C33_SearchBounded ==
    [][(lastOp'.op = "add" /\ cmp # NoCmp /\ items # <<>>) =>
          LET found == addInsertion(cmp, state, items, lastOp'.arg)
          IN  /\ found.calls <= ceilLog2(Len(items)) + 1
              /\ found.index \in 0..Len(items)
              /\ items' = spliceInsert(items, found.index, lastOp'.arg)]_vars

\* The case of C33: an add to five or more items under the comparator that
\* orders nothing, whose search took all the calls it is allowed.
C33_Witness ==
    /\ lastOp.op = "add" /\ cmp = Inconsistent
    /\ Len(items) >= 6
    /\ LET before == spliceDelete(items, log[1].index)
       IN  addInsertion(cmp, state, before, lastOp.arg).calls
               = ceilLog2(Len(before)) + 1

\* C34: no change listener is ever invoked with an index below 0, also for
\* the writes that add and remove listeners make during a dispatch.
C34_ChangeIndexValid ==
    \A i \in 1..Len(log) :
        (log[i].what = "call" /\ log[i].list = "change") => log[i].index >= 0

\* C35: a model that stands in the collection, once or more often, has one
\* subscription: a write to it invokes each change listener once, and a
\* write to a model that stands nowhere in it invokes none.
C35_OneSubscription ==
    lastOp.op = "set" =>
        Len(callsOf("change")) =
            IF lastOp.arg \in Range(items) THEN Len(changeListeners) ELSE 0

\* C36: when a remove has returned and the item is a member again, put back
\* by a remove listener, the item has one subscription and it is the one the
\* collection records; a write to a model that is no member invokes no
\* change listener.
C36_ReaddedStaysTracked ==
    /\ (lastOp.op = "remove" /\ lastOp.arg \in Range(items)) =>
          /\ Len(modelAnyListeners[lastOp.arg]) = 1
          /\ modelListenerMap[lastOp.arg] \in Range(modelAnyListeners[lastOp.arg])
    /\ (lastOp.op = "set" /\ lastOp.arg \notin Range(items)) =>
          callsOf("change") = <<>>

\* C37: push and unshift notify the add and the any-change listeners, pop
\* and shift that took an item out the remove and the any-change listeners,
\* and after each of them a model is subscribed exactly when it is among
\* the items.
C37_ArrayMethodsNotify ==
    /\ lastOp.op \in {"push", "unshift"} =>
          /\ Len(callsOf("add")) = Len(addListeners)
          /\ Len(callsOf("any")) = Len(anyListeners)
    /\ (lastOp.op \in {"pop", "shift"} /\ lastOp.ret) =>
          /\ Len(callsOf("remove")) = Len(removeListeners)
          /\ Len(callsOf("any")) = Len(anyListeners)
    /\ lastOp.op \in {"push", "unshift", "pop", "shift"} =>
          \A m \in Models : (modelListenerMap[m] # 0) <=> (m \in Range(items))

\* How often h stands in the list.
occurrences(list, h) == Len(SelectSeq(list, LAMBDA f : f = h))

\* C38: within one dispatch, a handler whose unsubscribe closure another
\* handler has called is not invoked afterwards, and a handler registered
\* by another handler is not invoked for the event in flight.
C38_NoCallAfterOff ==
    /\ \A i, j \in 1..Len(log) :
          (i < j /\ log[i].what = "off" /\ log[j].what = "call"
                 /\ log[j].list = log[i].list) => log[j].h # log[i].h
    /\ \A i \in 1..Len(log) :
          log[i].what = "on" =>
              Len(SelectSeq(log, LAMBDA e : e.what = "call" /\ e.list = log[i].list
                                                            /\ e.h = log[i].h))
                  = occurrences(listenersOf(World, log[i].list), log[i].h) - 1

\* C39: a write to a member of the collection invokes every change listener
\* of the collection, whatever has been called on the item's own on, onAny,
\* unsubscribe closures and offAll.
C39_MemberWriteReachesListeners ==
    (lastOp.op = "set" /\ lastOp.arg \in Range(items)) =>
        \A k \in 1..Len(changeListeners) :
            \E i \in 1..Len(log) :
                /\ log[i].what = "call" /\ log[i].list = "change"
                /\ log[i].h = changeListeners[k] /\ log[i].item = lastOp.arg

\* C40: when a remove or removeAt ends in an exception thrown by a remove or
\* any-change listener, the item taken out is no longer subscribed; a write
\* to a model that is no member invokes no change listener.
C40_ThrowStillCleansUp ==
    /\ (lastOp.op \in {"remove", "removeAt"} /\ thrown(World)) =>
          /\ modelListenerMap[log[1].item] = 0
          /\ modelAnyListeners[log[1].item] = <<>>
          /\ \A m \in Models : (modelListenerMap[m] # 0) <=> (m \in Range(items))
    /\ (lastOp.op = "set" /\ lastOp.arg \notin Range(items)) =>
          Len(callsOf("change")) = 0

====
